---- MODULE Spec2Model ----
(***************************************************************************)
(* Model of the chat-context and brain-memory pipeline of helm:            *)
(*   backend/app/services/chat_service.py   (build_context,                *)
(*       stream_response, get_full_response)                               *)
(*   backend/app/services/brain_manager.py  (_retry_anthropic,             *)
(*       get_or_create_brain, update_brain_after_conversation)             *)
(*   backend/app/db/models.py               (BrainMemory)                  *)
(*                                                                         *)
(*   backend/app/api/routes/chat.py         (the chat endpoints and the    *)
(*       background brain update), backend/app/api/routes/classes.py       *)
(*                                                                         *)
(* Eleven specifications share the module:                                 *)
(*   SpecRetry        one call of stream_response, get_full_response or    *)
(*                    update_brain_after_conversation against an LLM whose *)
(*                    outcomes are chosen nondeterministically;            *)
(*   SpecBrain        tasks calling get_or_create_brain on their own       *)
(*                    database sessions, interleaved at the awaits;        *)
(*   SpecContext      build_context applied to bounded inputs;             *)
(*   SpecPattern      detect_pattern_update applied to bounded histories;  *)
(*   SpecConversation create_conversation and                              *)
(*                    update_conversation_context with the validation of   *)
(*                    the context ids;                                     *)
(*   Spec             streaming turns on one conversation, the background  *)
(*                    brain updates they schedule, and the deletion of     *)
(*                    the conversation and of a class;                     *)
(*   SpecManual       manually_update_brain with the same deletions;       *)
(*   SpecBackground   one background brain update over several scopes;     *)
(*   SpecKeyword      Spec with user messages that hold a memory keyword;  *)
(*   SpecUpdate       a background and a manual brain update on the same   *)
(*                    brains, interleaved between load and commit;         *)
(*   SpecAccess       the chat and brain endpoints called by either user   *)
(*                    on either user's conversation.                       *)
(***************************************************************************)
EXTENDS Integers, Sequences, FiniteSets, TLC

VARIABLES
    \* ---- SpecRetry: one LLM call with its retry loop
    fn,             \* the function under call
    pc,             \* "loop": top of `for attempt in range(max_attempts)`;
                    \* "stream": inside `async with ... as stream`;
                    \* "after_retry": _retry_anthropic has returned or raised;
                    \* "done": the call is over
    attempt,        \* the loop variable `attempt`
    llm,            \* the last outcome the LLM client produced
    errs,           \* the errors the LLM client raised, in order
    delays,         \* the arguments of asyncio.sleep, in order
    opens,          \* number of LLM requests opened (stream() / create())
    pos,            \* text fragments received from the current stream
    emitted,        \* the chunks stream_response has yielded, in order
    ret,            \* the value the call returned
    retry_result,   \* how _retry_anthropic ended: "none", "returned", "raised"
    brain,          \* the BrainMemory object handed to update_brain_after_conversation
    committed,      \* the same brain row as last committed to the database
    brain_before,   \* the brain object as it was when the call began
    \* ---- SpecBrain: get_or_create_brain on concurrent database sessions
    brain_memories, \* the committed rows of table brain_memories
    next_id,        \* source of fresh primary keys (uuid4)
    task,           \* per task (one AsyncSession each): its position in
                    \* get_or_create_brain, its arguments and what its calls gave
    \* ---- SpecContext: one call of build_context
    ctx_in,         \* what the queries of build_context return for the call
    ctx_pc,         \* "call" before build_context runs, "done" after
    context_parts,  \* the local list context_parts when the call returns
    total_chars,    \* the local counter total_chars when the call returns
    add_log,        \* the calls of _add_part, in order, with what each returned
    context,        \* the string build_context returned
    \* ---- SpecPattern: one call of detect_pattern_update
    conversation_history, \* the argument: a list of role/content messages
    pat_pc,         \* "build" while the history grows, "done" after the call
    should_update,  \* what detect_pattern_update returned
    \* ---- SpecConversation and Spec: the chat endpoints. The tables hold the
    \* committed rows; brain_memories and next_id above are shared with them.
    tbl_classes,        \* table classes: rows [id, user_id]
    tbl_assignments,    \* table assignments: rows [id, user_id]
    tbl_pdfs,           \* table pdfs: rows [id, user_id]
    tbl_notes,          \* table notes: rows [id, user_id]
    chat_conversations, \* table chat_conversations
    chat_messages,      \* table chat_messages, in created_at order
    turn,               \* per streaming request: position in stream_chat_message
                        \* and event_generator, their locals, the events sent
    jobs,               \* the tasks made by asyncio.create_task, in creation order
    response            \* the last response of a non-streaming endpoint

retryVars == <<fn, pc, attempt, llm, errs, delays, opens, pos, emitted, ret,
               retry_result, brain, committed, brain_before>>

brainVars == <<brain_memories, next_id, task>>

ctxVars == <<ctx_in, ctx_pc, context_parts, total_chars, add_log, context>>

patVars == <<conversation_history, pat_pc, should_update>>

chatVars == <<tbl_classes, tbl_assignments, tbl_pdfs, tbl_notes,
              chat_conversations, chat_messages, turn, jobs, response>>

\* What the actions of one specification leave alone.
nonRetryVars == <<brainVars, ctxVars, patVars, chatVars>>
nonBrainVars == <<retryVars, ctxVars, patVars, chatVars>>
nonCtxVars   == <<retryVars, brainVars, patVars, chatVars>>
nonPatVars   == <<retryVars, brainVars, ctxVars, chatVars>>
nonChatVars  == <<retryVars, ctxVars, patVars, task>>

vars == <<retryVars, brainVars, ctxVars, patVars, chatVars>>

\* ---------------------------------------------------------------- bounds
\* Longest LLM text stream, in fragments.
MaxChunks == 2

\* Concurrent callers of get_or_create_brain, and calls each makes in a row.
MaxTasks == 2
MaxCalls == 2

\* The settings of build_context, scaled down from the defaults of config.py
\* (100000, 10000, 5000) so that texts around each limit can be enumerated;
\* the code reads them from the environment and uses them only in comparisons
\* and slices.
max_total_context_chars == 64
pdf_context_max_chars == 3
note_context_max_chars == 2

\* ------------------------------------------------------- program constants
\* chat_service.py:197, 263 and brain_manager.py:20 (max_attempts = 3)
max_attempts == 3
\* brain_manager.py:20 (base_delay = 1.0); chat_service.py:215, 279 (1.0 * ...)
base_delay == 1

\* ============================================================== LLM errors
\* The exception classes of the anthropic client the handlers tell apart.
\* RateLimitError is an APIStatusError (429); "APIStatusError529" is an
\* APIStatusError with status_code 529 (overloaded), "APIStatusError500" one
\* with another status, "Exception" anything that is no anthropic error.
ErrorKinds == {"APIConnectionError", "RateLimitError", "APIStatusError529",
               "APIStatusError500", "Exception"}

\* isinstance(e, APIStatusError)
IsAPIStatusError(e) == e \in {"RateLimitError", "APIStatusError529", "APIStatusError500"}

\* e.status_code, for an APIStatusError
status_code(e) ==
    CASE e = "RateLimitError"    -> 429
      [] e = "APIStatusError529" -> 529
      [] e = "APIStatusError500" -> 500
      [] OTHER                   -> 0

\* chat_service._RETRYABLE_ERRORS = (APIConnectionError, RateLimitError)
Chat_RETRYABLE_ERRORS == {"APIConnectionError", "RateLimitError"}

\* brain_manager._RETRYABLE_ERRORS = (APIConnectionError, RateLimitError)
Brain_RETRYABLE_ERRORS == {"APIConnectionError", "RateLimitError"}

\* delay = base_delay * (2 ** attempt)
Delay(a) == base_delay * (2 ^ a)

Last(s) == s[Len(s)]

\* ================================================== chat_service.stream_response
TextChunk(p)  == [kind |-> "text", pos |-> p, err |-> "none"]
\* f"\n\n[Error: {safe_msg}]"
ErrorChunk(e) == [kind |-> "error", pos |-> 0, err |-> e]

\* `async with self.client.messages.stream(...) as stream:` of one attempt
stream_open ==
    /\ fn = "stream_response"
    /\ pc = "loop"
    /\ pc' = "stream"
    /\ opens' = opens + 1
    /\ pos' = 0
    /\ llm' = "open"
    /\ UNCHANGED <<fn, attempt, errs, delays, emitted, ret, retry_result, brain, committed, brain_before, nonRetryVars>>

\* `async for text in stream.text_stream: yield text`, one fragment
stream_text ==
    /\ fn = "stream_response"
    /\ pc = "stream"
    /\ pos < MaxChunks
    /\ pos' = pos + 1
    /\ emitted' = Append(emitted, TextChunk(pos + 1))
    /\ llm' = "text"
    /\ UNCHANGED <<fn, pc, attempt, errs, delays, opens, ret, retry_result, brain, committed, brain_before, nonRetryVars>>

\* the stream ended: `return  # Success, exit the retry loop`
stream_return ==
    /\ fn = "stream_response"
    /\ pc = "stream"
    /\ pc' = "done"
    /\ llm' = "end"
    /\ ret' = "returned"
    /\ UNCHANGED <<fn, attempt, errs, delays, opens, pos, emitted, retry_result, brain, committed, brain_before, nonRetryVars>>

\* `except _RETRYABLE_ERRORS as e:` of stream_response (lines 212-224)
stream_except_retryable(e) ==
    /\ IF attempt < max_attempts - 1
       THEN /\ delays' = Append(delays, Delay(attempt))
            /\ attempt' = attempt + 1
            /\ pc' = "loop"
            /\ UNCHANGED <<emitted, ret>>
       ELSE \* the last iteration: yield the marker, the loop is exhausted
            /\ emitted' = Append(emitted, ErrorChunk(e))
            /\ pc' = "done"
            /\ ret' = "returned"
            /\ UNCHANGED <<delays, attempt>>

\* `except Exception as e:` of stream_response (lines 226-230)
stream_except_other_NoReturn(e) ==
    /\ emitted' = Append(emitted, ErrorChunk(e))
    /\ IF attempt < max_attempts - 1
       THEN /\ attempt' = attempt + 1
            /\ pc' = "loop"
            /\ UNCHANGED ret
       ELSE /\ pc' = "done"
            /\ ret' = "returned"
            /\ UNCHANGED attempt
    /\ UNCHANGED delays
stream_except_other(e) ==
    /\ emitted' = Append(emitted, ErrorChunk(e))
    /\ pc' = "done"
    /\ ret' = "returned"
    /\ UNCHANGED <<delays, attempt>>

\* The LLM client raises e while the stream is being established (pos = 0)
\* or read (pos > 0); both happen inside the same try block.
stream_raise ==
    /\ fn = "stream_response"
    /\ pc = "stream"
    /\ \E e \in ErrorKinds :
        /\ llm' = e
        /\ errs' = Append(errs, e)
        /\ IF e \in Chat_RETRYABLE_ERRORS
           THEN stream_except_retryable(e)
           ELSE stream_except_other(e)
    /\ UNCHANGED <<fn, opens, pos, retry_result, brain, committed, brain_before, nonRetryVars>>

\* ================================================ chat_service.get_full_response
\* One iteration of the loop: `await self.client.messages.create(...)` and the
\* handler its outcome selects (lines 266-293).
get_full_response ==
    /\ fn = "get_full_response"
    /\ pc = "loop"
    /\ opens' = opens + 1
    /\ \/ \* return message.content[0].text
          /\ llm' = "end"
          /\ ret' = "text"
          /\ pc' = "done"
          /\ UNCHANGED <<attempt, errs, delays>>
       \/ \E e \in ErrorKinds :
          /\ llm' = e
          /\ errs' = Append(errs, e)
          /\ IF e \in Chat_RETRYABLE_ERRORS /\ attempt < max_attempts - 1
             THEN /\ delays' = Append(delays, Delay(attempt))
                  /\ attempt' = attempt + 1
                  /\ UNCHANGED <<pc, ret>>
             ELSE \* return f"Error: {safe_msg}"
                  /\ ret' = "Error"
                  /\ pc' = "done"
                  /\ UNCHANGED <<attempt, delays>>
    /\ UNCHANGED <<fn, pos, emitted, retry_result, brain, committed, brain_before, nonRetryVars>>

\* ============================================== brain_manager._retry_anthropic
\* Whether _retry_anthropic sleeps and goes round again after e:
\* `except _RETRYABLE_ERRORS` (36-46) and `except APIStatusError` with
\* status_code 529 (47-59); anything else propagates.
retry_anthropic_retries_No529(e) == e \in Brain_RETRYABLE_ERRORS
retry_anthropic_retries(e) ==
    \/ e \in Brain_RETRYABLE_ERRORS
    \/ (IsAPIStatusError(e) /\ status_code(e) = 529)

\* One iteration of the loop of _retry_anthropic, called by
\* update_brain_after_conversation: `await coro_factory()` and its outcome.
retry_anthropic ==
    /\ fn = "update_brain_after_conversation"
    /\ pc = "loop"
    /\ opens' = opens + 1
    /\ \/ \* return await coro_factory()
          /\ \E m \in {"message", "message_without_content"} : llm' = m
          /\ retry_result' = "returned"
          /\ pc' = "after_retry"
          /\ UNCHANGED <<attempt, errs, delays>>
       \/ \E e \in ErrorKinds :
          /\ llm' = e
          /\ errs' = Append(errs, e)
          /\ IF retry_anthropic_retries(e) /\ attempt < max_attempts - 1
             THEN /\ delays' = Append(delays, Delay(attempt))
                  /\ attempt' = attempt + 1
                  /\ UNCHANGED <<pc, retry_result>>
             ELSE \* raise
                  /\ retry_result' = "raised"
                  /\ pc' = "after_retry"
                  /\ UNCHANGED <<attempt, delays>>
    /\ UNCHANGED <<fn, pos, emitted, ret, brain, committed, brain_before, nonRetryVars>>

\* ============================= brain_manager.update_brain_after_conversation
\* The conversation that triggers the update (argument conversation_id).
conversation_id == "conv2"

\* message.content[0].text of a successful LLM answer: a revised brain, or the
\* current content returned unchanged.
UpdatedContents(b) == {"# Revised brain", b.content}

\* Lines 166-176: take the text, overwrite the brain, commit, return the text.
update_brain_save(text) ==
    /\ brain' = [brain EXCEPT !.content = text,
                              !.update_count = @ + 1,
                              !.last_updated_by_conversation_id = conversation_id]
    /\ committed' = brain'
    /\ ret' = text

\* Lines 178-181: `except Exception`: log, return brain.content.
update_brain_except_CountsAnyway ==
    /\ brain' = [brain EXCEPT !.update_count = @ + 1]
    /\ committed' = brain'
    /\ ret' = brain.content
update_brain_except ==
    /\ ret' = brain.content
    /\ UNCHANGED <<brain, committed>>

\* The part of update_brain_after_conversation that follows _retry_anthropic.
\* message.content[0] of an answer with no content block raises IndexError,
\* which the same `except Exception` catches.
update_brain_after_conversation ==
    /\ fn = "update_brain_after_conversation"
    /\ pc = "after_retry"
    /\ pc' = "done"
    /\ IF retry_result = "returned" /\ llm = "message"
       THEN \E text \in UpdatedContents(brain) : update_brain_save(text)
       ELSE update_brain_except
    /\ UNCHANGED <<fn, attempt, llm, errs, delays, opens, pos, emitted,
                   retry_result, brain_before, nonRetryVars>>

\* ================================================================ idle parts
\* What a specification that does not exercise a part of the model holds it at.
BrainIdle ==
    /\ brain_memories = {}
    /\ next_id = 1
    /\ task = <<>>

CtxIdle ==
    /\ ctx_in = <<>>
    /\ ctx_pc = "done"
    /\ context_parts = <<>>
    /\ total_chars = 0
    /\ add_log = <<>>
    /\ context = ""

PatIdle ==
    /\ conversation_history = <<>>
    /\ pat_pc = "done"
    /\ should_update = FALSE

ChatIdle ==
    /\ tbl_classes = {}
    /\ tbl_assignments = {}
    /\ tbl_pdfs = {}
    /\ tbl_notes = {}
    /\ chat_conversations = {}
    /\ chat_messages = <<>>
    /\ turn = <<>>
    /\ jobs = <<>>
    /\ response = [op |-> "none", status |-> 200]

RetryIdle ==
    /\ fn = "none"
    /\ pc = "done"
    /\ attempt = 0
    /\ llm = "none"
    /\ errs = <<>>
    /\ delays = <<>>
    /\ opens = 0
    /\ pos = 0
    /\ emitted = <<>>
    /\ ret = "none"
    /\ retry_result = "none"
    /\ brain = [content |-> "", update_count |-> 0,
                last_updated_by_conversation_id |-> "NULL"]
    /\ committed = brain
    /\ brain_before = brain

\* ================================================================ SpecRetry
Functions == {"stream_response", "get_full_response",
              "update_brain_after_conversation"}

\* The brains a call may be handed: new (get_or_create_brain's defaults) or
\* already updated by an earlier conversation.
Brains ==
    { [content |-> "", update_count |-> 0,
       last_updated_by_conversation_id |-> "NULL"],
      [content |-> "Likes visual explanations", update_count |-> 1,
       last_updated_by_conversation_id |-> "conv1"] }

InitRetry ==
    /\ fn \in Functions
    /\ pc = "loop"
    /\ attempt = 0
    /\ llm = "none"
    /\ errs = <<>>
    /\ delays = <<>>
    /\ opens = 0
    /\ pos = 0
    /\ emitted = <<>>
    /\ ret = "none"
    /\ retry_result = "none"
    /\ brain \in Brains
    /\ committed = brain
    /\ brain_before = brain
    /\ BrainIdle
    /\ CtxIdle
    /\ PatIdle
    /\ ChatIdle

NextRetry ==
    \/ stream_open
    \/ stream_text
    \/ stream_return
    \/ stream_raise
    \/ get_full_response
    \/ retry_anthropic
    \/ update_brain_after_conversation

SpecRetry == InitRetry /\ [][NextRetry]_vars

\* ------------------------------------------------------ claims on SpecRetry
IsStream == fn = "stream_response"
IsUpdate == fn = "update_brain_after_conversation"

TextYielded == \E i \in 1..Len(emitted) : emitted[i].kind = "text"
ErrorMarkers == {i \in 1..Len(emitted) : emitted[i].kind = "error"}

\* The call is over and the last thing the LLM client did was raise.
EndedOnError == pc \in {"after_retry", "done"} /\ llm \in ErrorKinds

\* The error categories the specification calls transient: connection
\* failure, rate limiting, server overloaded (529).
TransientErrors == {"APIConnectionError", "RateLimitError", "APIStatusError529"}

\* C1: in stream_response, once a text chunk has been yielded no further LLM
\* stream is opened: a connection or rate-limit error raised after the first
\* chunk yields exactly one error chunk and ends the sequence, so no fragment
\* position of the response is emitted twice.
C1_CommittedAfterFirstChunk ==
    [][ (IsStream /\ TextYielded) =>
          /\ opens' = opens
          /\ (errs' # errs /\ llm' \in {"APIConnectionError", "RateLimitError"})
                => (pc' = "done" /\ emitted' = Append(emitted, ErrorChunk(llm')))
          /\ \A i, j \in 1..Len(emitted') :
                (i < j /\ emitted'[i].kind = "text" /\ emitted'[j].kind = "text")
                  => emitted'[i].pos # emitted'[j].pos ]_vars

\* C2: stream_response yields at most one error-marker chunk, the marker is
\* the last element of the sequence, and it is yielded exactly when the call
\* ends on a non-retryable error or on a retryable error at the third attempt.
C2_OneTerminalErrorMarker ==
    IsStream =>
      /\ Cardinality(ErrorMarkers) <= 1
      /\ \A i \in ErrorMarkers : i = Len(emitted) /\ pc = "done"
      /\ pc = "done" =>
            ( ErrorMarkers # {}
              <=> ( EndedOnError /\ ( llm \notin {"APIConnectionError", "RateLimitError"}
                                      \/ Len(errs) = 3 ) ) )

\* C2 witness: text was streamed, then the third retryable error ended the call
\* with the marker.
C2_Witness ==
    /\ IsStream /\ pc = "done" /\ TextYielded
    /\ Len(errs) = 3 /\ llm = "RateLimitError"
    /\ Last(emitted).kind = "error"

\* C3: stream_response and get_full_response retry exactly the error
\* categories _retry_anthropic retries: every error that was followed by
\* another attempt is one _retry_anthropic retries, and a call that ends on an
\* error _retry_anthropic retries has used all its attempts.
C3_SameRetryableCategories ==
    /\ \A i \in 1..Len(errs) :
          (i < Len(errs) \/ ~EndedOnError) => retry_anthropic_retries(errs[i])
    /\ (EndedOnError /\ retry_anthropic_retries(llm)) => Len(errs) = max_attempts

\* C4: _retry_anthropic makes at most 3 attempts; it goes round again only
\* after a connection, rate-limit or 529 error, waiting 1 s then 2 s; it waits
\* nothing after the third failure and raises at once on any other error. One
\* connection error then success: one success, one delay. Three connection
\* errors: raised, no fourth attempt.
C4_RetryPolicy ==
    IsUpdate =>
      /\ opens <= 3
      /\ Len(delays) <= 2
      /\ \A i \in 1..Len(delays) :
            delays[i] = (IF i = 1 THEN 1 ELSE 2) /\ errs[i] \in TransientErrors
      /\ Len(delays) = (IF retry_result = "raised" THEN Len(errs) - 1 ELSE Len(errs))
      /\ opens = (IF retry_result = "none" THEN Len(errs) ELSE Len(delays) + 1)
      /\ retry_result = "raised" =>
            (Len(errs) = 3 \/ Last(errs) \notin TransientErrors)
      /\ (retry_result = "returned" /\ errs = <<"APIConnectionError">>) =>
            (delays = <<1>> /\ opens = 2)
      /\ errs = <<"APIConnectionError", "APIConnectionError", "APIConnectionError">> =>
            (retry_result = "raised" /\ opens = 3 /\ delays = <<1, 2>>)

\* C4 witness: a connection error, one wait of 1 s, then success.
C4_Witness ==
    /\ IsUpdate /\ retry_result = "returned"
    /\ errs = <<"APIConnectionError">> /\ delays = <<1>>

\* C5: if the LLM call inside update_brain_after_conversation fails, the call
\* returns the content the brain had before, content, update_count and
\* last_updated_by_conversation_id are unchanged (object and row), and the
\* call returns rather than raises.
C5_FailedUpdateLeavesBrain ==
    (IsUpdate /\ pc = "done" /\ retry_result = "raised") =>
      /\ ret = brain_before.content
      /\ brain = brain_before
      /\ committed = brain_before

\* C5 witness: three transient errors on a brain that had been updated before.
C5_Witness ==
    /\ IsUpdate /\ pc = "done" /\ retry_result = "raised"
    /\ Len(errs) = 3
    /\ brain_before.update_count = 1
    /\ ret = "Likes visual explanations"

\* =========================================== brain_manager.get_or_create_brain
\* Callers (chat turns through build_context, background brain-update tasks,
\* the brain read endpoints) each hold their own AsyncSession; the awaits of
\* get_or_create_brain (db.execute, db.commit) are where they interleave.
Tasks == 1..MaxTasks
Users == {"u1", "u2"}
NULL == "NULL"
\* class_id: UUID | None
ClassIdArgs == {NULL, "c1"}

\* brain_type = "global" if class_id is None else "class"
brain_type_of(class_id) == IF class_id = NULL THEN "global" ELSE "class"

\* select(BrainMemory).where(user_id == user_id, class_id == class_id,
\* brain_type == brain_type); `class_id == None` is rendered IS NULL.
SelectBrain(user_id, class_id) ==
    {r \in brain_memories : /\ r.user_id = user_id
                            /\ r.class_id = class_id
                            /\ r.brain_type = brain_type_of(class_id)}

\* UniqueConstraint("user_id", "class_id", "brain_type") on a nullable class_id:
\* the database compares the columns with SQL equality, under which NULL equals
\* nothing, so a row whose class_id is NULL never conflicts.
unique_user_class_brain_violated(row) ==
    \E r \in brain_memories :
        /\ r.user_id = row.user_id
        /\ r.class_id # NULL /\ row.class_id # NULL /\ r.class_id = row.class_id
        /\ r.brain_type = row.brain_type

\* BrainMemory(user_id, class_id, brain_type, content="", update_count=0);
\* last_updated_by_conversation_id is nullable and has no default.
NewBrain(id, user_id, class_id) ==
    [id |-> id, user_id |-> user_id, class_id |-> class_id,
     brain_type |-> brain_type_of(class_id), content |-> "", update_count |-> 0,
     last_updated_by_conversation_id |-> NULL]

CallResult(t, outcome, id) ==
    [user_id |-> task[t].user_id, class_id |-> task[t].class_id,
     outcome |-> outcome, id |-> id]

\* A caller enters get_or_create_brain(db, user_id, class_id).
get_or_create_brain_call(t) ==
    /\ task[t].pc = "idle"
    /\ Len(task[t].results) < MaxCalls
    /\ \E u \in Users, c \in ClassIdArgs :
         task' = [task EXCEPT ![t].pc = "select", ![t].user_id = u, ![t].class_id = c]
    /\ UNCHANGED <<brain_memories, next_id, nonBrainVars>>

\* result = await db.execute(stmt); brain = result.scalar_one_or_none()
\* (lines 93-99), and `return brain` when one row was found.
get_or_create_brain_select(t) ==
    /\ task[t].pc = "select"
    /\ LET found == SelectBrain(task[t].user_id, task[t].class_id) IN
       IF found = {}
       THEN task' = [task EXCEPT ![t].pc = "insert"]
       ELSE IF Cardinality(found) = 1
       THEN task' = [task EXCEPT
                       ![t].pc = "idle",
                       ![t].results = Append(@, CallResult(t, "returned",
                                                (CHOOSE r \in found : TRUE).id))]
       ELSE \* scalar_one_or_none raises MultipleResultsFound
            task' = [task EXCEPT
                       ![t].pc = "raised",
                       ![t].results = Append(@, CallResult(t, "MultipleResultsFound", 0))]
    /\ UNCHANGED <<brain_memories, next_id, nonBrainVars>>

\* db.add(brain); await db.commit(); await db.refresh(brain); return brain
\* (lines 102-114). The commit fails with IntegrityError when the unique
\* constraint is violated.
get_or_create_brain_insert(t) ==
    /\ task[t].pc = "insert"
    /\ LET row == NewBrain(next_id, task[t].user_id, task[t].class_id) IN
       IF unique_user_class_brain_violated(row)
       THEN /\ task' = [task EXCEPT
                          ![t].pc = "raised",
                          ![t].results = Append(@, CallResult(t, "IntegrityError", 0))]
            /\ UNCHANGED <<brain_memories, next_id>>
       ELSE /\ brain_memories' = brain_memories \cup {row}
            /\ next_id' = next_id + 1
            /\ task' = [task EXCEPT
                          ![t].pc = "idle",
                          ![t].results = Append(@, CallResult(t, "returned", row.id))]
    /\ UNCHANGED nonBrainVars

\* ================================================================ SpecBrain
InitBrain ==
    /\ brain_memories = {}
    /\ next_id = 1
    /\ task = [t \in Tasks |-> [pc |-> "idle", user_id |-> "u1", class_id |-> NULL,
                                 results |-> <<>>]]
    /\ RetryIdle
    /\ CtxIdle
    /\ PatIdle
    /\ ChatIdle

NextBrain ==
    \E t \in Tasks :
        \/ get_or_create_brain_call(t)
        \/ get_or_create_brain_select(t)
        \/ get_or_create_brain_insert(t)

SpecBrain == InitBrain /\ [][NextBrain]_vars

\* ------------------------------------------------------ claims on SpecBrain
\* C6: in every reachable state there is at most one brain row per
\* (user, scope, type), the global scope (class_id NULL) included.
C6_OneBrainPerScope ==
    \A r1, r2 \in brain_memories :
        ( /\ r1.user_id = r2.user_id
          /\ r1.class_id = r2.class_id
          /\ r1.brain_type = r2.brain_type ) => r1.id = r2.id

\* C7: any two calls of get_or_create_brain for the same (user, scope),
\* sequential or interleaved between the lookup and the insert, both return
\* without error a brain with the same identity.
C7_GetOrCreateIdempotent ==
    \A t1, t2 \in Tasks :
      \A i1 \in 1..Len(task[t1].results), i2 \in 1..Len(task[t2].results) :
        LET a == task[t1].results[i1]
            b == task[t2].results[i2] IN
        (a.user_id = b.user_id /\ a.class_id = b.class_id) =>
            /\ a.outcome = "returned"
            /\ b.outcome = "returned"
            /\ a.id = b.id

\* ================================================ chat_service.build_context
\* Strings are TLA+ strings; Len, \o and SubSeq act on their characters.
Min(a, b) == IF a < b THEN a ELSE b

\* text[:n]
Take(text, n) == SubSeq(text, 1, Min(n, Len(text)))

\* sep.join(parts)
RECURSIVE Join(_, _)
Join(parts, sep) ==
    IF Len(parts) = 0 THEN ""
    ELSE IF Len(parts) = 1 THEN parts[1]
    ELSE parts[1] \o sep \o Join(Tail(parts), sep)

TruncationMarker == "\n\n[... content truncated ...]"
OverflowMarker == "\n\n[... additional context omitted due to size limits ...]"
NoContext == "No context available."

\* The locals of build_context: context_parts and total_chars, and the record
\* of what each _add_part call returned.
EmptyCtx == [parts |-> <<>>, total |-> 0, log |-> <<>>]

\* _add_part(part) (lines 71-78); src names the source the part comes from.
add_part(st, part, src) ==
    IF st.total + Len(part) > max_total_context_chars
    THEN [st EXCEPT !.log = Append(@, [src |-> src, part |-> part, added |-> FALSE])]
    ELSE [parts |-> Append(st.parts, part),
          total |-> st.total + Len(part),
          log |-> Append(st.log, [src |-> src, part |-> part, added |-> TRUE])]

Src(kind, i) == [kind |-> kind, idx |-> i]

\* 1. Global brain (lines 81-83)
GlobalStep(st, global_content) ==
    IF global_content # ""
    THEN add_part(st, "# Global Knowledge\n" \o global_content \o "\n", Src("global", 0))
    ELSE st

\* header = f"# Class: {name}" [+ f" ({code})"] + "\n" (lines 96-99)
ClassHeader(c) ==
    "# Class: " \o c.name
      \o (IF c.code # "" THEN " (" \o c.code \o ")" ELSE "") \o "\n"

\* 2. Class brains and metadata (lines 86-105). classes[i].found says whether
\* the Class row of class_ids[i] exists for the user; brain is the content of
\* the class brain get_or_create_brain returns.
RECURSIVE ClassLoop(_, _, _)
ClassLoop(st, classes, i) ==
    IF i > Len(classes) \/ st.total >= max_total_context_chars
    THEN st
    ELSE LET c  == classes[i]
             s1 == IF c.found THEN add_part(st, ClassHeader(c), Src("class", i)) ELSE st
             s2 == IF c.brain # ""
                   THEN add_part(s1, "## Class Brain\n" \o c.brain \o "\n",
                                 Src("class_brain", i))
                   ELSE s1
         IN ClassLoop(s2, classes, i + 1)

\* The lines of one assignment (lines 118-122)
AssignmentLines(a) ==
    <<"- **" \o a.title \o "** (Due: "
        \o (IF a.due_date # "" THEN a.due_date ELSE "No due date") \o ")">>
    \o (IF a.notes_short # "" THEN <<"  - Notes: " \o a.notes_short>> ELSE <<>>)

RECURSIVE AssignmentParts(_, _)
AssignmentParts(assignments, i) ==
    IF i > Len(assignments) THEN <<>>
    ELSE AssignmentLines(assignments[i]) \o AssignmentParts(assignments, i + 1)

\* 3. Assignment metadata (lines 108-124). assignments is the result of the
\* user-scoped query, empty also when no id was given.
AssignmentStep(st, assignments) ==
    IF Len(assignments) > 0 /\ st.total < max_total_context_chars
    THEN add_part(st,
                  Join(<<"# Assignments in Context\n">>
                         \o AssignmentParts(assignments, 1) \o <<"\n">>, "\n"),
                  Src("assignments", 0))
    ELSE st

\* pdf_text / note_text (lines 137-139, 153-155): the slice, and the marker
\* when the text is longer than the cap.
Truncated_SliceOneShort(text, cap) ==
    IF Len(text) > cap THEN Take(text, cap - 1) \o TruncationMarker ELSE Take(text, cap)
Truncated(text, cap) ==
    IF Len(text) > cap THEN Take(text, cap) \o TruncationMarker ELSE Take(text, cap)

PdfPart(pdf) ==
    "# Document: " \o pdf.filename \o "\n"
       \o Truncated(pdf.extracted_text, pdf_context_max_chars) \o "\n"

NotePart(note) ==
    "# Note: " \o note.title \o "\n"
       \o Truncated(note.content_text, note_context_max_chars) \o "\n"

\* 4. PDF content (lines 127-140); pdfs is the result of the user-scoped query.
RECURSIVE PdfLoop(_, _, _)
PdfLoop(st, pdfs, i) ==
    IF i > Len(pdfs) \/ st.total >= max_total_context_chars
    THEN st
    ELSE PdfLoop(IF pdfs[i].extracted_text # ""
                 THEN add_part(st, PdfPart(pdfs[i]), Src("pdf", i))
                 ELSE st,
                 pdfs, i + 1)

\* 5. Note content (lines 143-156)
RECURSIVE NoteLoop(_, _, _)
NoteLoop(st, notes, i) ==
    IF i > Len(notes) \/ st.total >= max_total_context_chars
    THEN st
    ELSE NoteLoop(IF notes[i].content_text # ""
                  THEN add_part(st, NotePart(notes[i]), Src("note", i))
                  ELSE st,
                  notes, i + 1)

\* The locals after the five steps.
BuildLocals(in) ==
    NoteLoop(
      PdfLoop(
        AssignmentStep(
          ClassLoop(GlobalStep(EmptyCtx, in.global_content), in.classes, 1),
          in.assignments),
        in.pdfs, 1),
      in.notes, 1)

\* Lines 158-161: the overflow marker and the join.
FinalParts(st) ==
    IF st.total >= max_total_context_chars
    THEN Append(st.parts, OverflowMarker)
    ELSE st.parts

Returned(parts) == IF Len(parts) > 0 THEN Join(parts, "\n\n") ELSE NoContext

\* One call of build_context.
build_context ==
    /\ ctx_pc = "call"
    /\ LET st == BuildLocals(ctx_in) IN
        /\ context_parts' = FinalParts(st)
        /\ total_chars' = st.total
        /\ add_log' = st.log
        /\ context' = Returned(FinalParts(st))
    /\ ctx_pc' = "done"
    /\ UNCHANGED <<ctx_in, nonCtxVars>>

\* ============================================================== SpecContext
\* Longest list of PDFs in scope.
MaxPdfs == 2

\* Global brain contents: none, a short one, one whose part fills the budget
\* of 64 exactly (19 + 44 + 1), one whose part exceeds it.
GlobalContents ==
    {"", "Likes visual explanations",
     "Prefers worked examples before formal proof.",
     "Prefers worked examples and diagrams before proofs"}

ClassLists ==
    {<<>>,
     <<[found |-> TRUE, name |-> "Math", code |-> "", brain |-> ""]>>,
     <<[found |-> TRUE, name |-> "Math", code |-> "M1", brain |-> "Weak on proofs"]>>,
     <<[found |-> FALSE, name |-> "", code |-> "", brain |-> "Weak on proofs"]>>}

AssignmentLists ==
    {<<>>,
     <<[title |-> "HW1", due_date |-> "", notes_short |-> ""]>>,
     <<[title |-> "HW1", due_date |-> "2026-01-15", notes_short |-> "ch3"]>>}

\* Extracted texts: none, at the cap of 3, one and three characters past it.
Pdfs ==
    {[filename |-> "a.pdf", extracted_text |-> t] : t \in {"", "abc", "abcd", "abcdef"}}

RECURSIVE SeqsUpTo(_, _)
SeqsUpTo(S, n) ==
    IF n = 0 THEN {<<>>}
    ELSE SeqsUpTo(S, n - 1)
           \cup {Append(q, x) : q \in {r \in SeqsUpTo(S, n - 1) : Len(r) = n - 1}, x \in S}

NoteLists ==
    {<<>>} \cup {<<[title |-> "N", content_text |-> t]>> : t \in {"xy", "xyz"}}

InitContext ==
    /\ ctx_in \in [global_content : GlobalContents,
                    classes : ClassLists,
                    assignments : AssignmentLists,
                    pdfs : SeqsUpTo(Pdfs, MaxPdfs),
                    notes : NoteLists]
    /\ ctx_pc = "call"
    /\ context_parts = <<>>
    /\ total_chars = 0
    /\ add_log = <<>>
    /\ context = ""
    /\ RetryIdle
    /\ BrainIdle
    /\ PatIdle
    /\ ChatIdle

NextContext == build_context

SpecContext == InitContext /\ [][NextContext]_vars

\* ---------------------------------------------------- claims on SpecContext
EndsWith(text, suffix) ==
    /\ Len(text) >= Len(suffix)
    /\ SubSeq(text, Len(text) - Len(suffix) + 1, Len(text)) = suffix

StartsWith(text, prefix) ==
    /\ Len(text) >= Len(prefix)
    /\ SubSeq(text, 1, Len(prefix)) = prefix

\* C8: the length of the string build_context returns, separators counted,
\* never exceeds max_total_context_chars plus the length of the overflow marker.
C8_ContextLengthBound ==
    ctx_pc = "done" =>
        Len(context) <= max_total_context_chars + Len(OverflowMarker)

\* C9: if a source part is left out because it does not fit in the budget,
\* the returned context ends with exactly one overflow marker and no source
\* part later in the order is included after the omitted one.
C9_OmissionEndsContext ==
    ctx_pc = "done" =>
      \A i \in 1..Len(add_log) :
        ~add_log[i].added =>
          /\ EndsWith(context, OverflowMarker)
          /\ Cardinality({k \in 1..Len(context_parts) :
                            context_parts[k] = OverflowMarker}) = 1
          /\ \A j \in 1..Len(add_log) : j > i => ~add_log[j].added

\* The document a logged _add_part call is about: its text, its cap and the
\* heading line of its segment.
DocOf(e) ==
    IF e.src.kind = "pdf"
    THEN [text    |-> ctx_in.pdfs[e.src.idx].extracted_text,
          cap     |-> pdf_context_max_chars,
          heading |-> "# Document: " \o ctx_in.pdfs[e.src.idx].filename \o "\n"]
    ELSE [text    |-> ctx_in.notes[e.src.idx].content_text,
          cap     |-> note_context_max_chars,
          heading |-> "# Note: " \o ctx_in.notes[e.src.idx].title \o "\n"]

\* The PDF and note segments that build_context put into the context.
EmittedDocs ==
    {i \in 1..Len(add_log) : add_log[i].added /\ add_log[i].src.kind \in {"pdf", "note"}}

\* C10 as stated: the segment of a PDF or note longer than its cap holds
\* exactly the first cap characters followed by the truncation marker and ends
\* with that marker; a text not longer than the cap is emitted whole, no marker.
C10_TruncatedSegmentEndsWithMarker ==
    ctx_pc = "done" =>
      \A i \in EmittedDocs :
        LET e == add_log[i]
            doc == DocOf(e) IN
        IF Len(doc.text) > doc.cap
        THEN /\ StartsWith(e.part, doc.heading \o Take(doc.text, doc.cap) \o TruncationMarker)
             /\ EndsWith(e.part, TruncationMarker)
        ELSE e.part = doc.heading \o doc.text \o "\n"

\* C10 (amended): the segment of a PDF or note longer than its cap is its
\* heading line, exactly the first cap characters of the text, the truncation
\* marker and one closing newline, so it ends with the marker followed by a
\* newline; a text not longer than the cap is emitted whole with no marker.
\* Every such segment is one of the parts joined into the returned context.
C10_TruncatedSegment ==
    ctx_pc = "done" =>
      \A i \in EmittedDocs :
        LET e == add_log[i]
            doc == DocOf(e) IN
        /\ \E k \in 1..Len(context_parts) : context_parts[k] = e.part
        /\ IF Len(doc.text) > doc.cap
           THEN /\ e.part = doc.heading \o SubSeq(doc.text, 1, doc.cap)
                                \o TruncationMarker \o "\n"
                /\ EndsWith(e.part, TruncationMarker \o "\n")
           ELSE e.part = doc.heading \o doc.text \o "\n"

\* C10 witness: a context that holds the segment of a PDF longer than its cap,
\* truncated, and the segment of a note at its cap, whole.
C10_Witness ==
    /\ ctx_pc = "done"
    /\ \E i \in EmittedDocs :
          /\ add_log[i].src.kind = "pdf"
          /\ Len(DocOf(add_log[i]).text) > pdf_context_max_chars
          /\ EndsWith(add_log[i].part, TruncationMarker \o "\n")
    /\ \E i \in EmittedDocs :
          /\ add_log[i].src.kind = "note"
          /\ Len(DocOf(add_log[i]).text) = note_context_max_chars
          /\ ~EndsWith(add_log[i].part, TruncationMarker \o "\n")

\* ======================================= brain_manager.detect_pattern_update
\* SpecPattern: a conversation history is built message by message and
\* detect_pattern_update is called on it.

\* Longest history handed to detect_pattern_update.
MaxHistory == 6

\* settings.brain_update_message_interval
brain_update_message_interval == 5

\* memory_keywords
memory_keywords == {"remember", "important", "always", "prefer", "don't forget"}

UpperCase == "ABCDEFGHIJKLMNOPQRSTUVWXYZ"
LowerCase == "abcdefghijklmnopqrstuvwxyz"

\* str.lower() on one character
lower_char(c) ==
    IF \E i \in 1..Len(UpperCase) : SubSeq(UpperCase, i, i) = c
    THEN LET i == CHOOSE j \in 1..Len(UpperCase) : SubSeq(UpperCase, j, j) = c
         IN  SubSeq(LowerCase, i, i)
    ELSE c

\* str.lower()
RECURSIVE lower(_)
lower(s) ==
    IF s = "" THEN ""
    ELSE lower_char(SubSeq(s, 1, 1)) \o lower(SubSeq(s, 2, Len(s)))

\* `keyword in text` on strings
Contains(text, keyword) ==
    \E i \in 1..(Len(text) - Len(keyword) + 1) :
        SubSeq(text, i, i + Len(keyword) - 1) = keyword

Message(role, content) == [role |-> role, content |-> content]

user_message_count_AnyRole(history) ==
    Cardinality({i \in 1..Len(history) : history[i].role \in {"user", "assistant"}})

\* sum(1 for msg in conversation_history if msg["role"] == "user")
user_message_count(history) ==
    Cardinality({i \in 1..Len(history) : history[i].role = "user"})

detect_pattern_update(history) ==
    IF history = <<>> THEN FALSE
    ELSE LET last_message == lower(history[Len(history)].content)
         IN  IF \E keyword \in memory_keywords : Contains(last_message, keyword)
             THEN TRUE
             ELSE /\ user_message_count(history) > 0
                  /\ user_message_count(history) % brain_update_message_interval = 0

\* The messages a history is built from.
UserContents == {"what is a limit?", "Please REMEMBER this"}
AssistantContents == {"A limit is a value.", "Don't Forget the quiz."}
PatternMessages ==
    {Message("user", c) : c \in UserContents}
        \cup {Message("assistant", c) : c \in AssistantContents}

append_message ==
    /\ pat_pc = "build"
    /\ Len(conversation_history) < MaxHistory
    /\ \E m \in PatternMessages :
         conversation_history' = Append(conversation_history, m)
    /\ UNCHANGED <<pat_pc, should_update, nonPatVars>>

call_detect_pattern_update ==
    /\ pat_pc = "build"
    /\ should_update' = detect_pattern_update(conversation_history)
    /\ pat_pc' = "done"
    /\ UNCHANGED <<conversation_history, nonPatVars>>

InitPattern ==
    /\ conversation_history = <<>>
    /\ pat_pc = "build"
    /\ should_update = FALSE
    /\ RetryIdle
    /\ BrainIdle
    /\ CtxIdle
    /\ ChatIdle

NextPattern ==
    \/ append_message
    \/ call_detect_pattern_update

SpecPattern == InitPattern /\ [][NextPattern]_vars

\* ------------------------------------------------------------------ C11
NoKeyword(text) ==
    \A keyword \in memory_keywords : ~Contains(lower(text), keyword)

UserMessages(history) ==
    Cardinality({i \in 1..Len(history) : history[i].role = "user"})

\* C11: detect_pattern_update returns true exactly when the history is
\* non-empty and either the lowercased text of its last message contains a
\* trigger word or the number of user-role messages is a positive multiple of
\* brain_update_message_interval; an empty history gives false, 4 user messages
\* without trigger words give false and 5 give true.
C11_DetectPatternUpdate ==
    pat_pc = "done" =>
        LET h == conversation_history
            n == UserMessages(h)
        IN  /\ should_update <=>
                 /\ h # <<>>
                 /\ \/ ~NoKeyword(h[Len(h)].content)
                    \/ \E k \in 1..MaxHistory : n = k * brain_update_message_interval
            /\ h = <<>> => ~should_update
            /\ (/\ n = 4
                /\ \A i \in 1..Len(h) : NoKeyword(h[i].content)) => ~should_update
            /\ n = 5 => should_update
            /\ (h # <<>> /\ h[Len(h)].content = "Please REMEMBER this") => should_update

C11_Witness ==
    /\ pat_pc = "done"
    /\ UserMessages(conversation_history) = 5
    /\ Len(conversation_history) = 6
    /\ NoKeyword(conversation_history[Len(conversation_history)].content)
    /\ should_update

\* ================================================= api/routes/chat.py: rows
\* SpecConversation: create_conversation and update_conversation_context
\* called by either user with id lists over owned and foreign rows.

\* Conversations create_conversation may add, and the longest class id list of
\* a request.
MaxConversations == 1
MaxClassIds == 2

OwnedRow(id, user_id) == [id |-> id, user_id |-> user_id]

\* The rows the id lists of a conversation may name: each user owns some.
InitTables ==
    /\ tbl_classes = {OwnedRow("c1", "u1"), OwnedRow("c2", "u1"), OwnedRow("c9", "u2")}
    /\ tbl_assignments = {OwnedRow("a1", "u1"), OwnedRow("a9", "u2")}
    /\ tbl_pdfs = {OwnedRow("p1", "u1"), OwnedRow("p9", "u2")}
    /\ tbl_notes = {OwnedRow("n1", "u1"), OwnedRow("n9", "u2")}

\* The conversation ids requests name: the first one created, and one of no row.
RequestConversationIds == {"conv1", "conv0"}

\* An optional list of a request body: None, or a list of ids.
None == [some |-> FALSE, ids |-> <<>>]
Some(ids) == [some |-> TRUE, ids |-> ids]

\* `request.context_class_ids or None`
OrNone(ids) == IF ids = <<>> THEN None ELSE Some(ids)

Range(s) == {s[i] : i \in 1..Len(s)}

CountAnyOwner(table, ids, user_id) ==
    Cardinality({r \in table : r.id \in Range(ids)})

\* select(func.count()).select_from(T).where(T.id.in_(ids), T.user_id == user_id)
CountOwned(table, ids, user_id) ==
    Cardinality({r \in table : r.id \in Range(ids) /\ r.user_id = user_id})

\* One `if ids:` block of _validate_context_ids: FALSE where it raises
\* HTTPException(400). None and the empty list are both falsy.
ids_accepted(table, opt, user_id) ==
    IF opt.some /\ opt.ids # <<>>
    THEN CountOwned(table, opt.ids, user_id) = Len(opt.ids)
    ELSE TRUE

\* _validate_context_ids: the detail of the HTTPException(400) it raises, ""
\* where it returns.
validate_context_ids(user_id, class_ids, assignment_ids, pdf_ids, note_ids) ==
    IF ~ids_accepted(tbl_classes, class_ids, user_id)
    THEN "One or more class IDs are invalid or do not belong to you."
    ELSE IF ~ids_accepted(tbl_assignments, assignment_ids, user_id)
    THEN "One or more assignment IDs are invalid or do not belong to you."
    ELSE IF ~ids_accepted(tbl_pdfs, pdf_ids, user_id)
    THEN "One or more PDF IDs are invalid or do not belong to you."
    ELSE IF ~ids_accepted(tbl_notes, note_ids, user_id)
    THEN "One or more note IDs are invalid or do not belong to you."
    ELSE ""

\* A row of chat_conversations. updated_at is counted in assignments: 0 is the
\* server default NOW() the insert gives it, and each later assignment of a
\* time to the column would make it one more. The table has no onupdate and
\* no trigger (alembic 001 creates triggers for seven other tables).
ChatConversation(id, user_id, class_ids, assignment_ids, pdf_ids, note_ids) ==
    [id |-> id, user_id |-> user_id,
     context_class_ids |-> class_ids,
     context_assignment_ids |-> assignment_ids,
     context_pdf_ids |-> pdf_ids,
     context_note_ids |-> note_ids,
     updated_at |-> 0]

\* get_user_resource_or_404 looking the row up by its id alone.
get_user_resource_AnyOwner(table, resource_id, user_id) ==
    {r \in table : r.id = resource_id}

\* get_user_resource_or_404 on a table: the rows the scoped select returns
\* (at most one, id being the primary key); empty where it raises 404.
get_user_resource(table, resource_id, user_id) ==
    {r \in table : r.id = resource_id /\ r.user_id = user_id}

\* default=uuid4: an id no row has had, drawn from the source next_id.
NewConversationId == "conv" \o ToString(next_id)

\* The id lists request bodies carry: a class of either user, and rows that
\* are the caller's own when u2 calls and foreign when u1 calls.
RequestClassIds == SeqsUpTo({"c1", "c9"}, MaxClassIds)
RequestAssignmentIds == SeqsUpTo({"a9"}, 1)
RequestPdfIds == SeqsUpTo({"p9"}, 1)
RequestNoteIds == SeqsUpTo({"n9"}, 1)

Request(class_ids, assignment_ids, pdf_ids, note_ids) ==
    [context_class_ids |-> class_ids,
     context_assignment_ids |-> assignment_ids,
     context_pdf_ids |-> pdf_ids,
     context_note_ids |-> note_ids]

\* ConversationCreateRequest: four lists, default empty.
CreateRequests ==
    {Request(Some(c), Some(a), Some(p), Some(n)) :
        c \in RequestClassIds, a \in RequestAssignmentIds,
        p \in RequestPdfIds, n \in RequestNoteIds}

\* ConversationUpdateContextRequest: four optional lists, default None.
Optional(lists) == {None} \cup {Some(l) : l \in lists}
UpdateRequests ==
    {Request(c, a, p, n) :
        c \in Optional(RequestClassIds), a \in Optional(RequestAssignmentIds),
        p \in Optional(RequestPdfIds), n \in Optional(RequestNoteIds)}

\* A request while the handler has not answered it (status Pending), and the
\* response once it has: the status code and the detail of the error.
Response(op, user_id, conv_id, request, status) ==
    [op |-> op, user_id |-> user_id, conversation_id |-> conv_id,
     request |-> request, status |-> status, detail |-> ""]

NoRequest == Request(None, None, None, None)

Answer(conv_id, status, detail) ==
    [response EXCEPT !.conversation_id = conv_id, !.request = NoRequest,
                     !.status = status, !.detail = detail]

\* status of a request the handler has not answered yet
Pending == 0

\* A client sends POST /chat/conversations or PATCH /chat/conversations/{id}.
send_request ==
    /\ response.status # Pending
    /\ \/ /\ Cardinality(chat_conversations) < MaxConversations
          /\ \E user_id \in Users, request \in CreateRequests :
               response' = Response("create_conversation", user_id, NULL, request, Pending)
       \/ \E user_id \in Users, conv_id \in RequestConversationIds,
             request \in UpdateRequests :
               response' = Response("update_conversation_context", user_id, conv_id,
                                    request, Pending)
    /\ UNCHANGED <<tbl_classes, tbl_assignments, tbl_pdfs, tbl_notes, chat_conversations,
                   chat_messages, turn, jobs, brain_memories, next_id, nonChatVars>>

\* POST /chat/conversations
create_conversation ==
    /\ response.op = "create_conversation"
    /\ response.status = Pending
    /\ LET user_id == response.user_id
           request == response.request
           detail == validate_context_ids(user_id,
                         OrNone(request.context_class_ids.ids),
                         OrNone(request.context_assignment_ids.ids),
                         OrNone(request.context_pdf_ids.ids),
                         OrNone(request.context_note_ids.ids))
           conversation == ChatConversation(NewConversationId, user_id,
                               request.context_class_ids.ids,
                               request.context_assignment_ids.ids,
                               request.context_pdf_ids.ids,
                               request.context_note_ids.ids)
       IN  IF detail = ""
           THEN /\ chat_conversations' = chat_conversations \cup {conversation}
                /\ next_id' = next_id + 1
                /\ response' = Answer(conversation.id, 201, "")
           ELSE /\ chat_conversations' = chat_conversations
                /\ next_id' = next_id
                /\ response' = Answer(NULL, 400, detail)
    /\ UNCHANGED <<tbl_classes, tbl_assignments, tbl_pdfs, tbl_notes, chat_messages,
                   turn, jobs, brain_memories, nonChatVars>>

\* The assignments of update_conversation_context, lines 276-283.
with_context(conversation, request) ==
    [conversation EXCEPT
        !.context_class_ids = IF request.context_class_ids.some
                              THEN request.context_class_ids.ids ELSE @,
        !.context_assignment_ids = IF request.context_assignment_ids.some
                                   THEN request.context_assignment_ids.ids ELSE @,
        !.context_pdf_ids = IF request.context_pdf_ids.some
                            THEN request.context_pdf_ids.ids ELSE @,
        !.context_note_ids = IF request.context_note_ids.some
                             THEN request.context_note_ids.ids ELSE @]

\* PATCH /chat/conversations/{conversation_id}
update_conversation_context ==
    /\ response.op = "update_conversation_context"
    /\ response.status = Pending
    /\ LET user_id == response.user_id
           request == response.request
           found == get_user_resource(chat_conversations, response.conversation_id,
                                      user_id)
           detail == validate_context_ids(user_id,
                         request.context_class_ids,
                         request.context_assignment_ids,
                         request.context_pdf_ids,
                         request.context_note_ids)
       IN  IF found = {}
           THEN /\ chat_conversations' = chat_conversations
                /\ response' = Answer(response.conversation_id, 404, "Resource not found")
           ELSE IF detail # ""
           THEN /\ chat_conversations' = chat_conversations
                /\ response' = Answer(response.conversation_id, 400, detail)
           ELSE /\ chat_conversations' =
                      {IF c \in found THEN with_context(c, request) ELSE c :
                          c \in chat_conversations}
                /\ response' = Answer(response.conversation_id, 200, "")
    /\ UNCHANGED <<tbl_classes, tbl_assignments, tbl_pdfs, tbl_notes, chat_messages,
                   turn, jobs, brain_memories, next_id, nonChatVars>>

InitConversation ==
    /\ InitTables
    /\ chat_conversations = {}
    /\ chat_messages = <<>>
    /\ turn = <<>>
    /\ jobs = <<>>
    /\ response = [op |-> "none", status |-> 200]
    /\ RetryIdle
    /\ BrainIdle
    /\ CtxIdle
    /\ PatIdle

NextConversation ==
    \/ send_request
    \/ create_conversation
    \/ update_conversation_context

SpecConversation == InitConversation /\ [][NextConversation]_vars

\* ------------------------------------------------------------------ C12
\* The ids of a table that belong to someone else than user_id, or to no row.
NotOwned(table, opt, user_id) ==
    \E i \in 1..Len(opt.ids) :
        ~\E r \in table : r.id = opt.ids[i] /\ r.user_id = user_id

NamesForeignId(request, user_id) ==
    \/ NotOwned(tbl_classes, request.context_class_ids, user_id)
    \/ NotOwned(tbl_assignments, request.context_assignment_ids, user_id)
    \/ NotOwned(tbl_pdfs, request.context_pdf_ids, user_id)
    \/ NotOwned(tbl_notes, request.context_note_ids, user_id)

\* C12: a create or context-update request naming a class, assignment, PDF or
\* note id the caller does not own is answered 400 (404 if the conversation
\* to update is not the caller's) and persists nothing: no conversation row is
\* added and no scope list of any conversation changes.
C12_ForeignIdsRejected ==
    [][(/\ response.op \in {"create_conversation", "update_conversation_context"}
        /\ response.status = Pending
        /\ NamesForeignId(response.request, response.user_id))
       => /\ chat_conversations' = chat_conversations
          /\ response'.status \in {400, 404}
          /\ response'.status = 404 <=>
                /\ response.op = "update_conversation_context"
                /\ get_user_resource(chat_conversations, response.conversation_id,
                                     response.user_id) = {}]_vars

C12_Witness ==
    /\ response.op = "update_conversation_context"
    /\ response.status = 400
    /\ response.detail = "One or more PDF IDs are invalid or do not belong to you."
    /\ \E c \in chat_conversations :
         /\ c.id = response.conversation_id
         /\ c.user_id = response.user_id
         /\ c.context_class_ids # <<>>
         /\ c.context_pdf_ids = <<>>

\* ======================================= api/routes/chat.py: streaming turns
\* Spec: streaming requests on one conversation, interleaved at their awaits
\* with each other, with the background tasks they schedule, with manual brain
\* updates and with deletions of the conversation and of classes.

\* Concurrent streaming requests, and manual update requests.
MaxTurns == 2
MaxManual == 1

Turns == 1..MaxTurns

\* The conversation of the requests, owned by u1.
TheConversation == "conv1"

\* ChatMessage(conversation_id, role, content); id stands for the uuid4 key.
ChatMessage(id, conv_id, role, content) ==
    [id |-> id, conversation_id |-> conv_id, role |-> role, content |-> content]

\* select(ChatMessage).where(conversation_id == ...).order_by(created_at.asc())
MessagesOf(conv_id) ==
    SelectSeq(chat_messages, LAMBDA m : m.conversation_id = conv_id)

\* history = [{"role": msg.role, "content": msg.content} for msg in messages]
RECURSIVE HistoryOf(_)
HistoryOf(messages) ==
    IF messages = <<>> THEN <<>>
    ELSE <<Message(Head(messages).role, Head(messages).content)>>
             \o HistoryOf(Tail(messages))

\* ---- brains, on an explicit table
\* The result of a call: what it returned or raised, and the table and the key
\* source after it.
BrainResult(outcome, b, bm, nid) ==
    [outcome |-> outcome, brain |-> b, bm |-> bm, nid |-> nid]

NoBrain == NewBrain(0, NULL, NULL)

\* get_or_create_brain run from select to return on one session with no other
\* task in between. The insert of a class brain fails on the foreign key
\* brain_memories.class_id -> classes.id when the class row is gone.
GetOrCreate(bm, nid, user_id, class_id) ==
    LET found == {r \in bm : /\ r.user_id = user_id
                             /\ r.class_id = class_id
                             /\ r.brain_type = brain_type_of(class_id)}
        row == NewBrain(nid, user_id, class_id)
    IN  IF Cardinality(found) > 1
        THEN BrainResult("MultipleResultsFound", NoBrain, bm, nid)
        ELSE IF found # {}
        THEN BrainResult("returned", CHOOSE r \in found : TRUE, bm, nid)
        ELSE IF class_id # NULL /\ ~\E c \in tbl_classes : c.id = class_id
        THEN BrainResult("IntegrityError", NoBrain, bm, nid)
        ELSE BrainResult("returned", row, bm \cup {row}, nid + 1)

\* The calls of get_or_create_brain in build_context: the global brain, then
\* the brain of each class id, until one raises.
RECURSIVE LoadBrains(_, _, _, _, _)
LoadBrains(bm, nid, user_id, scopes, i) ==
    IF i > Len(scopes)
    THEN BrainResult("returned", NoBrain, bm, nid)
    ELSE LET g == GetOrCreate(bm, nid, user_id, scopes[i])
         IN  IF g.outcome # "returned" THEN g
             ELSE LoadBrains(g.bm, g.nid, user_id, scopes, i + 1)

\* ---- one streaming request
IdleTurn ==
    [pc |-> "idle", user_id |-> NULL, message |-> "", history |-> <<>>,
     context_class_ids |-> <<>>, updated_at |-> 0, stream |-> "none", chunks |-> 0,
     full_response |-> "", events |-> <<>>]

\* request.message
UserTexts == {"what is a limit?"}

\* The text fragments of the LLM in the order it sends them, and the chunk
\* stream_response yields after a failure (chat_service.py:224, 229).
ChunkTexts == <<"A limit is a value. ", "It is approached. ">>
ChunkText(n) == ChunkTexts[((n - 1) % Len(ChunkTexts)) + 1]
ErrorText == "\n\n[Error: An error occurred while generating the response.]"

Event(event, data) == [event |-> event, data |-> data]

\* stream_chat_message, lines 330-353, for a request whose message is one of
\* texts: the conversation, build_context (which creates the missing brains
\* of the scope) and the history. Requests are numbered in the order they
\* arrive.
stream_chat_message_load_of(t, texts) ==
    /\ turn[t].pc = "idle"
    /\ \A earlier \in 1..(t - 1) : turn[earlier].pc # "idle"
    /\ \E user_id \in Users, message \in texts :
         LET found == get_user_resource(chat_conversations, TheConversation, user_id)
             conversation == CHOOSE c \in found : TRUE
             loaded == LoadBrains(brain_memories, next_id, user_id,
                                  <<NULL>> \o conversation.context_class_ids, 1)
         IN  IF found = {}
             THEN /\ turn' = [turn EXCEPT ![t].pc = "404", ![t].user_id = user_id]
                  /\ UNCHANGED <<brain_memories, next_id>>
             ELSE /\ brain_memories' = loaded.bm
                  /\ next_id' = loaded.nid
                  /\ turn' = [turn EXCEPT
                        ![t].pc = IF loaded.outcome = "returned" THEN "loaded" ELSE "500",
                        ![t].user_id = user_id,
                        ![t].message = message,
                        ![t].context_class_ids = conversation.context_class_ids,
                        ![t].updated_at = conversation.updated_at,
                        ![t].history = HistoryOf(MessagesOf(TheConversation))]
    /\ UNCHANGED <<tbl_classes, tbl_assignments, tbl_pdfs, tbl_notes, chat_conversations,
                   chat_messages, jobs, response, nonChatVars>>

stream_chat_message_load(t) == stream_chat_message_load_of(t, UserTexts)

\* The key of the message a request writes.
MessageId(t, role) == <<t, IF role = "user" THEN 1 ELSE 2>>

ConversationExists(conv_id) == \E c \in chat_conversations : c.id = conv_id

\* stream_chat_message_commit with the commit of the user message left out.
stream_chat_message_commit_NoInsert(t) ==
    /\ turn[t].pc = "loaded"
    /\ chat_messages' = chat_messages
    /\ turn' = [turn EXCEPT ![t].pc = IF ConversationExists(TheConversation)
                                      THEN "committed" ELSE "500"]
    /\ UNCHANGED <<tbl_classes, tbl_assignments, tbl_pdfs, tbl_notes, chat_conversations,
                   jobs, response, brain_memories, next_id, nonChatVars>>

\* stream_chat_message_commit writing the user's text with role "assistant".
stream_chat_message_commit_RoleAssistant(t) ==
    /\ turn[t].pc = "loaded"
    /\ IF ConversationExists(TheConversation)
       THEN /\ chat_messages' = Append(chat_messages,
                  ChatMessage(MessageId(t, "user"), TheConversation, "assistant",
                              turn[t].message))
            /\ turn' = [turn EXCEPT ![t].pc = "committed"]
       ELSE /\ chat_messages' = chat_messages
            /\ turn' = [turn EXCEPT ![t].pc = "500"]
    /\ UNCHANGED <<tbl_classes, tbl_assignments, tbl_pdfs, tbl_notes, chat_conversations,
                   jobs, response, brain_memories, next_id, nonChatVars>>

\* lines 355-363 and 417: db.add(user_message); await db.commit(); the response
\* starts. The insert fails on the foreign key chat_messages.conversation_id
\* when the conversation row is gone.
stream_chat_message_commit(t) ==
    /\ turn[t].pc = "loaded"
    /\ IF ConversationExists(TheConversation)
       THEN /\ chat_messages' = Append(chat_messages,
                  ChatMessage(MessageId(t, "user"), TheConversation, "user",
                              turn[t].message))
            /\ turn' = [turn EXCEPT ![t].pc = "committed"]
       ELSE /\ chat_messages' = chat_messages
            /\ turn' = [turn EXCEPT ![t].pc = "500"]
    /\ UNCHANGED <<tbl_classes, tbl_assignments, tbl_pdfs, tbl_notes, chat_conversations,
                   jobs, response, brain_memories, next_id, nonChatVars>>

\* event_generator is started: full_response = "" and the first step of
\* stream_response opens the LLM stream (lines 367-375).
event_generator_open(t) ==
    /\ turn[t].pc = "committed"
    /\ turn' = [turn EXCEPT ![t].pc = "streaming", ![t].stream = "open"]
    /\ UNCHANGED <<tbl_classes, tbl_assignments, tbl_pdfs, tbl_notes, chat_conversations,
                   chat_messages, jobs, response, brain_memories, next_id, nonChatVars>>

\* event_generator_chunk forwarding the error chunk without adding it to
\* full_response.
event_generator_chunk_DropsErrorText(t) ==
    /\ turn[t].pc = "streaming"
    /\ turn[t].stream = "open"
    /\ \/ /\ turn[t].chunks < MaxChunks
          /\ LET chunk == ChunkText(turn[t].chunks + 1)
             IN  turn' = [turn EXCEPT
                            ![t].chunks = @ + 1,
                            ![t].full_response = @ \o chunk,
                            ![t].events = Append(@, Event("message", chunk))]
       \/ turn' = [turn EXCEPT
                     ![t].stream = "failed",
                     ![t].events = Append(@, Event("message", ErrorText))]
    /\ UNCHANGED <<tbl_classes, tbl_assignments, tbl_pdfs, tbl_notes, chat_conversations,
                   chat_messages, jobs, response, brain_memories, next_id, nonChatVars>>

\* One pass of the `async for`, lines 371-377: a text chunk, or the error
\* chunk after which stream_response returns.
event_generator_chunk(t) ==
    /\ turn[t].pc = "streaming"
    /\ turn[t].stream = "open"
    /\ \/ /\ turn[t].chunks < MaxChunks
          /\ LET chunk == ChunkText(turn[t].chunks + 1)
             IN  turn' = [turn EXCEPT
                            ![t].chunks = @ + 1,
                            ![t].full_response = @ \o chunk,
                            ![t].events = Append(@, Event("message", chunk))]
       \/ turn' = [turn EXCEPT
                     ![t].stream = "failed",
                     ![t].full_response = @ \o ErrorText,
                     ![t].events = Append(@, Event("message", ErrorText))]
    /\ UNCHANGED <<tbl_classes, tbl_assignments, tbl_pdfs, tbl_notes, chat_conversations,
                   chat_messages, jobs, response, brain_memories, next_id, nonChatVars>>

\* ---- the tasks updating brains
\* _update_brains_background(user_id, conversation_id, context_class_ids,
\* conversation_history) as created by asyncio.create_task, and a call of
\* manually_update_brain: the scopes they go through, the state of their
\* database session and what each scope gave.
NewJob(kind, t, user_id, conv_id, class_ids) ==
    [kind |-> kind, turn |-> t, user_id |-> user_id, conversation_id |-> conv_id,
     context_class_ids |-> class_ids,
     pc |-> IF kind = "background" THEN "scheduled" ELSE "running",
     i |-> 1, db |-> "ok", log |-> <<>>, updated_brains |-> <<>>,
     brain |-> NoBrain]

\* `for class_id in context_class_ids`, then the global brain
JobScopes(job) == job.context_class_ids \o <<NULL>>

\* event_generator_save whose exception handler sends no error event.
event_generator_save_NoErrorEvent(t) ==
    /\ turn[t].pc = "streaming"
    /\ IF ConversationExists(TheConversation)
       THEN /\ chat_messages' = Append(chat_messages,
                  ChatMessage(MessageId(t, "assistant"), TheConversation, "assistant",
                              turn[t].full_response))
            /\ turn' = [turn EXCEPT ![t].pc = "saved", ![t].stream = "ended"]
       ELSE /\ chat_messages' = chat_messages
            /\ turn' = [turn EXCEPT ![t].pc = "ended", ![t].stream = "ended"]
    /\ UNCHANGED <<tbl_classes, tbl_assignments, tbl_pdfs, tbl_notes, chat_conversations,
                   jobs, response, brain_memories, next_id, nonChatVars>>

\* The assistant message is saved when the stream has ended (lines 380-386).
\* The insert fails on the foreign key when the conversation row is gone; the
\* exception is caught at line 412 and the error event is sent.
event_generator_save(t) ==
    /\ turn[t].pc = "streaming"
    /\ IF ConversationExists(TheConversation)
       THEN /\ chat_messages' = Append(chat_messages,
                  ChatMessage(MessageId(t, "assistant"), TheConversation, "assistant",
                              turn[t].full_response))
            /\ turn' = [turn EXCEPT ![t].pc = "saved", ![t].stream = "ended"]
       ELSE /\ chat_messages' = chat_messages
            /\ turn' = [turn EXCEPT
                          ![t].pc = "ended", ![t].stream = "ended",
                          ![t].events = Append(@,
                              Event("error", "An error occurred during chat."))]
    /\ UNCHANGED <<tbl_classes, tbl_assignments, tbl_pdfs, tbl_notes, chat_conversations,
                   jobs, response, brain_memories, next_id, nonChatVars>>

\* updated_history without the new user message.
updated_history_NoUserMessage(t) ==
    turn[t].history \o <<Message("assistant", turn[t].full_response)>>

\* updated_history = history + [user message, assistant message]
updated_history(t) ==
    turn[t].history \o <<Message("user", turn[t].message),
                         Message("assistant", turn[t].full_response)>>

\* lines 389-415: db.refresh(conversation), which raises when the row is gone;
\* detect_pattern_update; asyncio.create_task; the done event.
event_generator_finish(t) ==
    /\ turn[t].pc = "saved"
    /\ LET found == {c \in chat_conversations : c.id = TheConversation}
           conversation == CHOOSE c \in found : TRUE
       IN  IF found = {}
           THEN /\ turn' = [turn EXCEPT
                              ![t].pc = "ended",
                              ![t].events = Append(@,
                                  Event("error", "An error occurred during chat."))]
                /\ jobs' = jobs
           ELSE /\ turn' = [turn EXCEPT
                              ![t].pc = "ended",
                              ![t].context_class_ids = conversation.context_class_ids,
                              ![t].events = Append(@, Event("done", ""))]
                /\ jobs' = IF detect_pattern_update(updated_history(t))
                           THEN Append(jobs, NewJob("background", t, turn[t].user_id,
                                                    conversation.id,
                                                    conversation.context_class_ids))
                           ELSE jobs
    /\ UNCHANGED <<tbl_classes, tbl_assignments, tbl_pdfs, tbl_notes, chat_conversations,
                   chat_messages, response, brain_memories, next_id, nonChatVars>>

\* The client closes the connection while the response is being sent: the
\* generator is cancelled at the await or yield it is suspended at. The
\* cancellation is not an Exception, so line 412 does not catch it and nothing
\* after the suspension point runs.
client_disconnect(t) ==
    /\ turn[t].pc \in {"committed", "streaming", "saved"}
    /\ turn' = [turn EXCEPT ![t].pc = "cancelled"]
    /\ UNCHANGED <<tbl_classes, tbl_assignments, tbl_pdfs, tbl_notes, chat_conversations,
                   chat_messages, jobs, response, brain_memories, next_id, nonChatVars>>

LogEntry(class_id, result) == [class_id |-> class_id, result |-> result]

\* message.content[0].text of the LLM's answer
RevisedBrain == "# Revised brain"

\* brain.content = updated_content; brain.update_count += 1;
\* brain.last_updated_by_conversation_id = conversation_id; commit
update_brain_save_row(b, text, conv_id) ==
    [b EXCEPT !.content = text,
              !.update_count = @ + 1,
              !.last_updated_by_conversation_id = conv_id]

\* update_scope with one handler around the whole loop: a scope that raises
\* ends the loop.
update_scope_AbortsOnRaise(j) ==
    /\ jobs[j].pc \in {"scheduled", "running"}
    /\ jobs[j].i <= Len(JobScopes(jobs[j]))
    /\ LET job == jobs[j]
           class_id == JobScopes(job)[job.i]
           g == IF job.db = "ok"
                THEN GetOrCreate(brain_memories, next_id, job.user_id, class_id)
                ELSE BrainResult("PendingRollbackError", NoBrain, brain_memories, next_id)
       IN  IF g.outcome # "returned"
           THEN /\ brain_memories' = g.bm
                /\ next_id' = g.nid
                /\ jobs' = [jobs EXCEPT
                      ![j].pc = IF job.kind = "manual" THEN "raised" ELSE "running",
                      ![j].i = Len(JobScopes(job)) + 1,
                      ![j].db = IF g.outcome = "IntegrityError" THEN "failed" ELSE @,
                      ![j].log = Append(@, LogEntry(class_id, g.outcome))]
           ELSE \E outcome \in {"message", "APIStatusError500"} :
                /\ next_id' = g.nid
                /\ brain_memories' =
                     IF outcome = "APIStatusError500" THEN g.bm
                     ELSE (g.bm \ {g.brain})
                              \cup {update_brain_save_row(g.brain, RevisedBrain,
                                                          job.conversation_id)}
                /\ jobs' = [jobs EXCEPT
                      ![j].pc = "running",
                      ![j].i = @ + 1,
                      ![j].log = Append(@, LogEntry(class_id,
                                    IF outcome = "APIStatusError500"
                                    THEN "update_failed" ELSE "updated")),
                      ![j].updated_brains = IF job.kind = "manual"
                                            THEN Append(@, class_id) ELSE @]
    /\ UNCHANGED <<tbl_classes, tbl_assignments, tbl_pdfs, tbl_notes, chat_conversations,
                   chat_messages, turn, response, nonChatVars>>

\* One scope of a task: get_or_create_brain, then
\* update_brain_after_conversation with the LLM answering or failing. An
\* IntegrityError leaves the session in need of a rollback, and every later
\* statement on it raises PendingRollbackError. The background task catches what
\* a scope raises (chat.py:59, 71); manually_update_brain does not, but reports
\* the scope whenever update_brain_after_conversation returned (lines 458-474).
update_scope(j) ==
    /\ jobs[j].pc \in {"scheduled", "running"}
    /\ jobs[j].i <= Len(JobScopes(jobs[j]))
    /\ LET job == jobs[j]
           class_id == JobScopes(job)[job.i]
           g == IF job.db = "ok"
                THEN GetOrCreate(brain_memories, next_id, job.user_id, class_id)
                ELSE BrainResult("PendingRollbackError", NoBrain, brain_memories, next_id)
       IN  IF g.outcome # "returned"
           THEN /\ brain_memories' = g.bm
                /\ next_id' = g.nid
                /\ jobs' = [jobs EXCEPT
                      ![j].pc = IF job.kind = "manual" THEN "raised" ELSE "running",
                      ![j].i = @ + 1,
                      ![j].db = IF g.outcome = "IntegrityError" THEN "failed" ELSE @,
                      ![j].log = Append(@, LogEntry(class_id, g.outcome))]
           ELSE \E outcome \in {"message", "APIStatusError500"} :
                /\ next_id' = g.nid
                /\ brain_memories' =
                     IF outcome = "APIStatusError500" THEN g.bm
                     ELSE (g.bm \ {g.brain})
                              \cup {update_brain_save_row(g.brain, RevisedBrain,
                                                          job.conversation_id)}
                /\ jobs' = [jobs EXCEPT
                      ![j].pc = "running",
                      ![j].i = @ + 1,
                      ![j].log = Append(@, LogEntry(class_id,
                                    IF outcome = "APIStatusError500"
                                    THEN "update_failed" ELSE "updated")),
                      ![j].updated_brains = IF job.kind = "manual"
                                            THEN Append(@, class_id) ELSE @]
    /\ UNCHANGED <<tbl_classes, tbl_assignments, tbl_pdfs, tbl_notes, chat_conversations,
                   chat_messages, turn, response, nonChatVars>>

\* update_brains_background_end with the failure of the task sent to the client
\* of the turn instead of being logged.
update_brains_background_end_Surfaces(j) ==
    /\ jobs[j].kind = "background"
    /\ jobs[j].pc \in {"scheduled", "running"}
    /\ jobs[j].i > Len(JobScopes(jobs[j]))
    /\ jobs' = [jobs EXCEPT
          ![j].pc = "finished",
          ![j].log = Append(@, LogEntry("commit",
                        IF jobs[j].db = "ok" THEN "committed"
                        ELSE "PendingRollbackError"))]
    /\ turn' = IF jobs[j].db = "ok" THEN turn
               ELSE [turn EXCEPT ![jobs[j].turn].events =
                        Append(@, Event("error", "An error occurred during chat."))]
    /\ UNCHANGED <<tbl_classes, tbl_assignments, tbl_pdfs, tbl_notes, chat_conversations,
                   chat_messages, response, brain_memories, next_id, nonChatVars>>

\* The end of _update_brains_background: `await db.commit()` (line 74), whose
\* exception the outer handler catches (line 76); the task returns.
update_brains_background_end(j) ==
    /\ jobs[j].kind = "background"
    /\ jobs[j].pc \in {"scheduled", "running"}
    /\ jobs[j].i > Len(JobScopes(jobs[j]))
    /\ jobs' = [jobs EXCEPT
          ![j].pc = "finished",
          ![j].log = Append(@, LogEntry("commit",
                        IF jobs[j].db = "ok" THEN "committed"
                        ELSE "PendingRollbackError"))]
    /\ UNCHANGED <<tbl_classes, tbl_assignments, tbl_pdfs, tbl_notes, chat_conversations,
                   chat_messages, turn, response, brain_memories, next_id, nonChatVars>>

\* POST /chat/conversations/{id}/update-brain, lines 436-450: the conversation
\* and its history; the scopes follow in update_scope.
manually_update_brain_call ==
    /\ Cardinality({j \in 1..Len(jobs) : jobs[j].kind = "manual"}) < MaxManual
    /\ \E user_id \in Users :
         LET found == get_user_resource(chat_conversations, TheConversation, user_id)
             conversation == CHOOSE c \in found : TRUE
         IN  /\ found # {}
             /\ jobs' = Append(jobs, NewJob("manual", 0, user_id, conversation.id,
                                            conversation.context_class_ids))
    /\ UNCHANGED <<tbl_classes, tbl_assignments, tbl_pdfs, tbl_notes, chat_conversations,
                   chat_messages, turn, response, brain_memories, next_id, nonChatVars>>

\* return {"status": "updated", "brains": updated_brains}
manually_update_brain_return(j) ==
    /\ jobs[j].kind = "manual"
    /\ jobs[j].pc = "running"
    /\ jobs[j].i > Len(JobScopes(jobs[j]))
    /\ jobs' = [jobs EXCEPT ![j].pc = "returned"]
    /\ UNCHANGED <<tbl_classes, tbl_assignments, tbl_pdfs, tbl_notes, chat_conversations,
                   chat_messages, turn, response, brain_memories, next_id, nonChatVars>>

\* delete_conversation without the cascade to the messages.
delete_conversation_NoCascade ==
    /\ \E user_id \in Users :
         LET found == get_user_resource(chat_conversations, TheConversation, user_id)
         IN  /\ found # {}
             /\ chat_conversations' = chat_conversations \ found
             /\ chat_messages' = chat_messages
    /\ UNCHANGED <<tbl_classes, tbl_assignments, tbl_pdfs, tbl_notes, turn, jobs,
                   response, brain_memories, next_id, nonChatVars>>

\* DELETE /chat/conversations/{id}: the row goes, and with it its messages
\* (relationship cascade and ON DELETE CASCADE of chat_messages). A caller who
\* does not own the conversation gets 404 and nothing changes.
delete_conversation ==
    /\ \E user_id \in Users :
         LET found == get_user_resource(chat_conversations, TheConversation, user_id)
         IN  /\ found # {}
             /\ chat_conversations' = chat_conversations \ found
             /\ chat_messages' = SelectSeq(chat_messages,
                    LAMBDA m : ~\E c \in found : m.conversation_id = c.id)
    /\ UNCHANGED <<tbl_classes, tbl_assignments, tbl_pdfs, tbl_notes, turn, jobs,
                   response, brain_memories, next_id, nonChatVars>>

\* The class ids DELETE /classes/{id} is called with.
DeletedClassIds == {"c1"}

\* delete_class taking every brain of the owner with the class.
delete_class_AllBrains ==
    /\ \E user_id \in Users, cls \in tbl_classes :
         /\ cls.id \in DeletedClassIds
         /\ get_user_resource(tbl_classes, cls.id, user_id) # {}
         /\ tbl_classes' = tbl_classes \ {cls}
         /\ brain_memories' = {b \in brain_memories : b.user_id # cls.user_id}
    /\ UNCHANGED <<tbl_assignments, tbl_pdfs, tbl_notes, chat_conversations,
                   chat_messages, turn, jobs, response, next_id, nonChatVars>>

\* DELETE /classes/{id}: the row goes, and with it the brains of the class
\* (ON DELETE CASCADE of brain_memories.class_id; passive_deletes leaves it to
\* the database). The id lists of conversations are arrays without a foreign
\* key and stay as they are.
delete_class ==
    /\ \E user_id \in Users, cls \in tbl_classes :
         /\ cls.id \in DeletedClassIds
         /\ get_user_resource(tbl_classes, cls.id, user_id) # {}
         /\ tbl_classes' = tbl_classes \ {cls}
         /\ brain_memories' = {b \in brain_memories : b.class_id # cls.id}
    /\ UNCHANGED <<tbl_assignments, tbl_pdfs, tbl_notes, chat_conversations,
                   chat_messages, turn, jobs, response, next_id, nonChatVars>>

\* ---- Spec
\* Completed turns the conversation starts with: two short of the update
\* interval, so that the second request of a run brings the interval's message.
PriorTurns == brain_update_message_interval - 2

PriorMessages(k) ==
    [i \in 1..(2 * k) |->
        IF i % 2 = 1
        THEN ChatMessage(<<0, i>>, TheConversation, "user", "what is a limit?")
        ELSE ChatMessage(<<0, i>>, TheConversation, "assistant", "A limit is a value. ")]

\* The state after those turns: the conversation with one class in scope,
\* its messages, and the brains build_context created for the scope.
Init ==
    /\ InitTables
    /\ chat_conversations =
          {ChatConversation(TheConversation, "u1", <<"c1">>, <<>>, <<>>, <<>>)}
    /\ chat_messages = PriorMessages(PriorTurns)
    /\ brain_memories = {NewBrain(1, "u1", NULL), NewBrain(2, "u1", "c1")}
    /\ next_id = 3
    /\ task = <<>>
    /\ turn = [t \in Turns |-> IdleTurn]
    /\ jobs = <<>>
    /\ response = [op |-> "none", status |-> 200]
    /\ RetryIdle
    /\ CtxIdle
    /\ PatIdle

Next ==
    \/ \E t \in Turns :
         \/ stream_chat_message_load(t)
         \/ stream_chat_message_commit(t)
         \/ event_generator_open(t)
         \/ event_generator_chunk(t)
         \/ event_generator_save(t)
         \/ event_generator_finish(t)
         \/ client_disconnect(t)
    \/ \E j \in 1..Len(jobs) :
         \/ update_scope(j)
         \/ update_brains_background_end(j)
    \/ delete_conversation
    \/ delete_class

Spec == Init /\ [][Next]_vars

\* ------------------------------------------------------------------ C13
\* The rows of chat_messages a request wrote.
RowsOf(t, role) ==
    {i \in 1..Len(chat_messages) : chat_messages[i].id = MessageId(t, role)}

StreamOpened(t) == turn[t].stream # "none"

\* C13: in every turn the user message is committed before the LLM stream is
\* opened and before the assistant message of the turn is written, and a turn
\* whose stream was cut off or failed leaves it persisted (for as long as the
\* conversation itself exists).
C13_UserMessageFirst ==
    \A t \in Turns :
        /\ (/\ StreamOpened(t) \/ turn[t].pc \in {"ended", "cancelled"}
            /\ ConversationExists(TheConversation))
              => /\ Cardinality(RowsOf(t, "user")) = 1
                 /\ \A i \in RowsOf(t, "user") :
                      /\ chat_messages[i].role = "user"
                      /\ chat_messages[i].content = turn[t].message
        /\ \A a \in RowsOf(t, "assistant") : \E u \in RowsOf(t, "user") : u < a

C13_Witness ==
    \E t \in Turns :
        /\ turn[t].pc = "cancelled"
        /\ turn[t].chunks >= 1
        /\ ConversationExists(TheConversation)
        /\ RowsOf(t, "user") # {}
        /\ RowsOf(t, "assistant") = {}

\* ------------------------------------------------------------------ C14
Terminals(t) ==
    {i \in 1..Len(turn[t].events) : turn[t].events[i].event \in {"done", "error"}}

\* C14: an event stream that was not cut off by the client ends with exactly
\* one terminal event, done or error, and no event follows it; a stream still
\* being sent has no terminal event yet.
C14_OneTerminalEvent ==
    \A t \in Turns :
        /\ Cardinality(Terminals(t)) <= 1
        /\ \A i \in Terminals(t) : i = Len(turn[t].events)
        /\ turn[t].pc = "ended" <=> Cardinality(Terminals(t)) = 1

C14_Witness ==
    \E t \in Turns :
        /\ turn[t].pc = "ended"
        /\ Len(turn[t].events) = MaxChunks + 1
        /\ turn[t].events[1].event = "message"
        /\ turn[t].events[Len(turn[t].events)].event = "error"

\* ------------------------------------------------------------------ C15
\* C15: once a client has disconnected after at least one chunk was forwarded,
\* the text accumulated so far is an assistant message of the conversation. A
\* cancelled generator takes no further step, so the message has to be there
\* when the turn is cancelled.
C15_PartialTextPersisted ==
    \A t \in Turns :
        (/\ turn[t].pc = "cancelled"
         /\ turn[t].chunks >= 1
         /\ ConversationExists(TheConversation))
        => \E i \in RowsOf(t, "assistant") :
              chat_messages[i].content = turn[t].full_response

\* ------------------------------------------------------------------ C16
JobsOf(t) == {j \in 1..Len(jobs) : jobs[j].kind = "background" /\ jobs[j].turn = t}

EndsWithDone(t) ==
    /\ turn[t].pc = "ended"
    /\ turn[t].events # <<>>
    /\ turn[t].events[Len(turn[t].events)].event = "done"
    /\ \A i \in 1..Len(turn[t].events) : turn[t].events[i].event # "error"

JobFailures(j) ==
    {i \in 1..Len(jobs[j].log) : jobs[j].log[i].result \notin {"updated", "committed"}}

\* C16: the turn that scheduled a background task has ended with done and
\* without an error event whatever the task does afterwards; the task has not
\* run a step when done is sent, and no step of it changes the events of the turn.
C16_BackgroundFailureInvisible ==
    [][\A t \in Turns :
         /\ \A j \in JobsOf(t)' : EndsWithDone(t)'
         /\ \A j \in JobsOf(t) : turn'[t].events = turn[t].events
         /\ \A j \in JobsOf(t)' \ JobsOf(t) :
              /\ jobs'[j].pc = "scheduled" /\ jobs'[j].log = <<>>
              /\ ~EndsWithDone(t)]_vars

C16_Witness ==
    \E t \in Turns : \E j \in JobsOf(t) :
        /\ jobs[j].pc = "finished"
        /\ \E i \in JobFailures(j) : jobs[j].log[i].result = "IntegrityError"
        /\ \E i \in JobFailures(j) : jobs[j].log[i].result = "PendingRollbackError"
        /\ EndsWithDone(t)

\* ------------------------------------------------------------------ C17
\* The user messages of the conversation up to and including the one turn t
\* wrote, in creation order.
UserRowsUpTo(t) ==
    {i \in 1..Len(chat_messages) :
        /\ chat_messages[i].conversation_id = TheConversation
        /\ chat_messages[i].role = "user"
        /\ \E u \in RowsOf(t, "user") : i <= u}

IsMultipleOfInterval(n) ==
    n > 0 /\ n % brain_update_message_interval = 0

\* The step in which turn t sends done.
Completes(t) == ~EndsWithDone(t) /\ EndsWithDone(t)'

\* The step schedules one task for turn t, for every class id the conversation
\* has in scope and for the global scope.
SchedulesOneJob(t) ==
    /\ Len(jobs') = Len(jobs) + 1
    /\ JobsOf(t)' = {Len(jobs')}
    /\ \E c \in chat_conversations :
         /\ c.id = TheConversation
         /\ jobs'[Len(jobs')].context_class_ids = c.context_class_ids
         /\ Range(JobScopes(jobs'[Len(jobs')])) = Range(c.context_class_ids) \cup {NULL}

\* C17 as stated: when a turn completes and the number of user messages of the
\* conversation, up to and counting the turn's own, is a positive multiple of
\* brain_update_message_interval, exactly one task is scheduled, covering every
\* class id and global.
C17_JobOnIntervalOfConversation ==
    [][\A t \in Turns :
         (Completes(t) /\ IsMultipleOfInterval(Cardinality(UserRowsUpTo(t))))
            => SchedulesOneJob(t)]_vars

\* C17, amended: the messages counted are those of the history the turn loaded
\* when it began, plus its own; a finished task has gone through every scope.
C17_JobOnIntervalOfHistory ==
    [][\A t \in Turns :
         /\ (Completes(t)
             /\ IsMultipleOfInterval(user_message_count(turn[t].history) + 1))
               => SchedulesOneJob(t)
         /\ Cardinality(JobsOf(t)') <= 1
         /\ \A j \in JobsOf(t)' :
              jobs'[j].pc = "finished" =>
                 \A k \in 1..Len(JobScopes(jobs'[j])) :
                    jobs'[j].log[k].class_id = JobScopes(jobs'[j])[k]]_vars

C17_Witness ==
    \E t \in Turns : \E j \in JobsOf(t) :
        /\ user_message_count(turn[t].history) + 1 = brain_update_message_interval
        /\ Cardinality(UserRowsUpTo(t)) = brain_update_message_interval
        /\ jobs[j].pc = "finished"
        /\ \A i \in 1..Len(jobs[j].log) : jobs[j].log[i].result \in {"updated", "committed"}

\* ------------------------------------------------------------------ C19
Deleted(conv_id) == ConversationExists(conv_id) /\ ~ConversationExists(conv_id)'

\* C19: deleting a conversation removes every message of it and changes no
\* brain row, whatever conversation a brain names as its last updater; and in
\* no state does a message refer to a conversation that does not exist.
C19_DeleteConversation ==
    /\ [](\A i \in 1..Len(chat_messages) :
             ConversationExists(chat_messages[i].conversation_id))
    /\ [][Deleted(TheConversation)
            => /\ MessagesOf(TheConversation)' = <<>>
               /\ brain_memories' = brain_memories]_vars

C19_Witness ==
    /\ ~ConversationExists(TheConversation)
    /\ chat_messages = <<>>
    /\ \E b \in brain_memories :
         /\ b.last_updated_by_conversation_id = TheConversation
         /\ b.content = RevisedBrain
    /\ \E t \in Turns :
         /\ turn[t].pc = "ended"
         /\ turn[t].chunks >= 1
         /\ turn[t].events[Len(turn[t].events)].event = "error"

\* ------------------------------------------------------------------ C20
Gone(b) == ~\E b2 \in brain_memories' : b2.id = b.id

\* C20 as stated: no step removes a brain row (no operation of the model
\* deletes a user).
C20_BrainsNeverDeleted ==
    [][\A b \in brain_memories : ~Gone(b)]_vars

\* C20, amended: a brain row is removed only together with the class it
\* belongs to; deleting a conversation removes none, and deleting a class
\* removes none of another scope.
C20_BrainsDeletedOnlyWithClass ==
    [][/\ \A b \in brain_memories :
            Gone(b) => /\ b.class_id # NULL
                       /\ \E c \in tbl_classes : c.id = b.class_id
                       /\ ~\E c \in tbl_classes' : c.id = b.class_id
       /\ Deleted(TheConversation) => \A b \in brain_memories : ~Gone(b)]_vars

C20_Witness ==
    /\ ~ConversationExists(TheConversation)
    /\ ~\E c \in tbl_classes : c.id = "c1"
    /\ ~\E b \in brain_memories : b.class_id = "c1"
    /\ \E b \in brain_memories :
         /\ b.class_id = NULL
         /\ b.user_id = "u1"
         /\ b.update_count >= 1

\* =================================================== manually_update_brain
\* SpecManual: the manual update endpoint on a conversation with two classes
\* in scope, interleaved with deletions.
ManualScope == <<"c1", "c2">>

\* The brains of the first n classes of the scope exist already (build_context
\* created them when the class was in scope of a turn); the others do not yet.
InitManual ==
    /\ InitTables
    /\ chat_conversations =
          {ChatConversation(TheConversation, "u1", ManualScope, <<>>, <<>>, <<>>)}
    /\ chat_messages = PriorMessages(PriorTurns)
    /\ \E n \in 0..Len(ManualScope) :
         /\ brain_memories = {NewBrain(1, "u1", NULL)}
                \cup {NewBrain(1 + i, "u1", ManualScope[i]) : i \in 1..n}
         /\ next_id = n + 2
    /\ task = <<>>
    /\ turn = [t \in Turns |-> IdleTurn]
    /\ jobs = <<>>
    /\ response = [op |-> "none", status |-> 200]
    /\ RetryIdle
    /\ CtxIdle
    /\ PatIdle

NextManual ==
    \/ manually_update_brain_call
    \/ \E j \in 1..Len(jobs) :
         \/ update_scope(j)
         \/ manually_update_brain_return(j)
    \/ delete_conversation
    \/ delete_class

SpecManual == InitManual /\ [][NextManual]_vars

\* ------------------------------------------------------------------ C18
\* The brain of a scope was updated by job j in the step: its content is the
\* LLM's text and its update_count is one more than before.
UpdatedInStep(j, class_id) ==
    \E b \in brain_memories' :
        /\ b.user_id = jobs[j].user_id
        /\ b.class_id = class_id
        /\ b.content = RevisedBrain
        /\ b.last_updated_by_conversation_id = jobs[j].conversation_id
        /\ \A old \in brain_memories : old.id = b.id => b.update_count = old.update_count + 1
        /\ (~\E old \in brain_memories : old.id = b.id) => b.update_count = 1

\* C18: a scope is added to the list the manual update endpoint returns only
\* in a step that updated the brain of the scope.
C18_ReportedScopesUpdated ==
    [][\A j \in 1..Len(jobs) :
         (/\ jobs[j].kind = "manual"
          /\ Len(jobs'[j].updated_brains) > Len(jobs[j].updated_brains))
         => UpdatedInStep(j, jobs'[j].updated_brains[Len(jobs'[j].updated_brains)])]_vars

\* ------------------------------------------------------------------ C29
\* C29: a create or context-update request whose every id is a row of the
\* caller (for an update: on a conversation of the caller) is accepted, also
\* when a list names an owned id more than once.
C29_OwnedIdsAccepted ==
    [][(/\ response.op \in {"create_conversation", "update_conversation_context"}
        /\ response.status = Pending
        /\ ~NamesForeignId(response.request, response.user_id)
        /\ response.op = "update_conversation_context"
              => get_user_resource(chat_conversations, response.conversation_id,
                                   response.user_id) # {})
       => response'.status \in {200, 201}]_vars

\* ------------------------------------------------------------------ C22
\* The payloads of the message events among the first n events, concatenated
\* in the order they were sent.
RECURSIVE Payloads(_, _)
Payloads(events, n) ==
    IF n = 0 THEN ""
    ELSE Payloads(events, n - 1)
            \o (IF events[n].event = "message" THEN events[n].data ELSE "")

\* The step in which the stream sequence of turn t ends.
StreamEnds(t) == turn[t].stream # "ended" /\ turn'[t].stream = "ended"

\* The assistant message of turn t is there once, with the text sent.
OneAssistantRow(t) ==
    /\ Cardinality(RowsOf(t, "assistant")) = 1
    /\ \A i \in RowsOf(t, "assistant") :
         /\ chat_messages[i].role = "assistant"
         /\ chat_messages[i].conversation_id = TheConversation
         /\ chat_messages[i].content = Payloads(turn[t].events, Len(turn[t].events))

\* C22 as stated: when the stream sequence of a turn ends, exactly one
\* assistant message is persisted for the turn, and its content is the
\* concatenation of the payloads of the message events sent.
C22_AssistantMessagePersisted ==
    [][\A t \in Turns : StreamEnds(t) => OneAssistantRow(t)']_vars

\* C22, amended: that holds when the conversation still exists at the end of
\* the stream; when it has been deleted meanwhile, no assistant message is
\* persisted and the turn ends with the error event. No turn ever has more
\* than one assistant message.
C22_AssistantMessagePersistedIfConversation ==
    [][\A t \in Turns :
         /\ StreamEnds(t) =>
              IF ConversationExists(TheConversation)
              THEN OneAssistantRow(t)'
              ELSE /\ RowsOf(t, "assistant")' = {}
                   /\ turn'[t].pc = "ended"
                   /\ turn'[t].events[Len(turn'[t].events)].event = "error"
         /\ Cardinality(RowsOf(t, "assistant")') <= 1
         /\ RowsOf(t, "assistant")' # {} => turn'[t].stream = "ended"]_vars

C22_Witness ==
    \E t \in Turns :
        /\ turn[t].stream = "ended"
        /\ turn[t].chunks >= 1
        /\ turn[t].full_response = ChunkText(1) \o ErrorText
        /\ OneAssistantRow(t)

\* ------------------------------------------------------------------ C23
\* C23: after a turn has completed with done, updated_at of the conversation
\* is later than it was when the turn loaded the conversation.
C23_TimestampAdvanced ==
    \A t \in Turns :
        EndsWithDone(t) =>
            \A c \in chat_conversations :
                c.id = TheConversation => c.updated_at > turn[t].updated_at

\* ------------------------------------------------------------------ C25
Role(i) == MessagesOf(TheConversation)[i].role

CountRole(role, n) ==
    Cardinality({i \in 1..n : Role(i) = role})

\* C25 as stated: the messages of the conversation in creation order are
\* user, assistant, user, assistant, ...
C25_StrictAlternation ==
    \A i \in 1..Len(MessagesOf(TheConversation)) :
        Role(i) = IF i % 2 = 1 THEN "user" ELSE "assistant"

\* C25, amended: every assistant message comes after the user message of its
\* own turn, no turn has more than one message of a role, and so every prefix
\* of the messages has at least as many user as assistant messages.
C25_AssistantAfterOwnUser ==
    /\ \A n \in 1..Len(MessagesOf(TheConversation)) :
         CountRole("assistant", n) <= CountRole("user", n)
    /\ \A t \in Turns :
         /\ Cardinality(RowsOf(t, "user")) <= 1
         /\ Cardinality(RowsOf(t, "assistant")) <= 1
         /\ \A a \in RowsOf(t, "assistant") : \E u \in RowsOf(t, "user") : u < a

\* A turn was cut off after its user message and the next turn ran to the
\* end: the messages end with user, user, assistant.
C25_Witness ==
    LET n == Len(chat_messages) IN
    /\ n >= 3
    /\ chat_messages[n].role = "assistant"
    /\ chat_messages[n - 1].role = "user"
    /\ chat_messages[n - 2].role = "user"
    /\ \E t \in Turns : turn[t].pc = "cancelled" /\ RowsOf(t, "user") # {}

\* ------------------------------------------------------------------ C30
RowOf(table, id, user_id) == \E r \in table : r.id = id /\ r.user_id = user_id

\* C30: every id in the four scope lists of a conversation is the id of a row
\* of the conversation's user.
C30_ScopeIdsExist ==
    \A c \in chat_conversations :
        /\ \A id \in Range(c.context_class_ids) : RowOf(tbl_classes, id, c.user_id)
        /\ \A id \in Range(c.context_assignment_ids) : RowOf(tbl_assignments, id, c.user_id)
        /\ \A id \in Range(c.context_pdf_ids) : RowOf(tbl_pdfs, id, c.user_id)
        /\ \A id \in Range(c.context_note_ids) : RowOf(tbl_notes, id, c.user_id)

\* =============================================== _update_brains_background
\* SpecBackground: one scheduled background task over two classes and the
\* global scope, interleaved with deletions. The turn that scheduled it, the
\* one bringing the interval's user message, is over.
InitBackground ==
    /\ InitTables
    /\ chat_conversations =
          {ChatConversation(TheConversation, "u1", ManualScope, <<>>, <<>>, <<>>)}
    /\ chat_messages = PriorMessages(brain_update_message_interval)
    /\ \E n \in 0..Len(ManualScope) :
         /\ brain_memories = {NewBrain(1, "u1", NULL)}
                \cup {NewBrain(1 + i, "u1", ManualScope[i]) : i \in 1..n}
         /\ next_id = n + 2
    /\ task = <<>>
    /\ turn = [t \in Turns |-> IdleTurn]
    /\ jobs = <<NewJob("background", 0, "u1", TheConversation, ManualScope)>>
    /\ response = [op |-> "none", status |-> 200]
    /\ RetryIdle
    /\ CtxIdle
    /\ PatIdle

NextBackground ==
    \/ \E j \in 1..Len(jobs) : update_scope(j)
    \/ \E j \in 1..Len(jobs) : update_brains_background_end(j)
    \/ delete_conversation
    \/ delete_class

SpecBackground == InitBackground /\ [][NextBackground]_vars

\* ------------------------------------------------------------------ C24
Raised(entry) == entry.result \in {"IntegrityError", "PendingRollbackError",
                                   "MultipleResultsFound"}

NextKeyword ==
    \/ \E t \in Turns :
         \/ stream_chat_message_load_of(t, UserContents)
         \/ stream_chat_message_commit(t)
         \/ event_generator_open(t)
         \/ event_generator_chunk(t)
         \/ event_generator_save(t)
         \/ event_generator_finish(t)
         \/ client_disconnect(t)
    \/ \E j \in 1..Len(jobs) : update_scope(j)
    \/ \E j \in 1..Len(jobs) : update_brains_background_end(j)

SpecKeyword == Init /\ [][NextKeyword]_vars

\* ------------------------------------------------------------------ C27
\* C27: a turn that completes and whose user message holds a memory keyword
\* schedules a brain update, whatever the number of messages and the reply.
C27_UserKeywordSchedulesUpdate ==
    [][\A t \in Turns :
         (Completes(t) /\ ~NoKeyword(turn[t].message)) => SchedulesOneJob(t)]_vars

\* ==================================== update_brain_after_conversation, shared
\* SpecUpdate: a background task and manual updates working on the same
\* brains, each on its own session, interleaved at their awaits: between
\* get_or_create_brain and the commit of update_brain_after_conversation lies
\* the LLM call.

\* update_brain_after_conversation_commit without `brain.update_count += 1`.
update_brain_commit_NoIncrement(row, loaded, text, conv_id) ==
    [row EXCEPT !.content = text,
                !.last_updated_by_conversation_id = conv_id]

\* The UPDATE the commit of update_brain_after_conversation sends for the row
\* with the brain's id (brain_manager.py:167-172): the attributes assigned on
\* the object the session loaded, update_count being the loaded value plus one.
update_brain_commit(row, loaded, text, conv_id) ==
    [row EXCEPT !.content = text,
                !.update_count = loaded.update_count + 1,
                !.last_updated_by_conversation_id = conv_id]

\* get_or_create_brain of the scope a task is at; the object stays in the
\* task's session (expire_on_commit=False).
update_scope_get(j) ==
    /\ jobs[j].pc \in {"scheduled", "running"}
    /\ jobs[j].i <= Len(JobScopes(jobs[j]))
    /\ jobs[j].brain = NoBrain
    /\ LET job == jobs[j]
           class_id == JobScopes(job)[job.i]
           g == IF job.db = "ok"
                THEN GetOrCreate(brain_memories, next_id, job.user_id, class_id)
                ELSE BrainResult("PendingRollbackError", NoBrain, brain_memories, next_id)
       IN  /\ brain_memories' = g.bm
           /\ next_id' = g.nid
           /\ jobs' = IF g.outcome # "returned"
                      THEN [jobs EXCEPT
                              ![j].pc = IF job.kind = "manual" THEN "raised" ELSE "running",
                              ![j].i = @ + 1,
                              ![j].db = IF g.outcome = "IntegrityError" THEN "failed" ELSE @,
                              ![j].log = Append(@, LogEntry(class_id, g.outcome))]
                      ELSE [jobs EXCEPT ![j].pc = "running", ![j].brain = g.brain]
    /\ UNCHANGED <<tbl_classes, tbl_assignments, tbl_pdfs, tbl_notes, chat_conversations,
                   chat_messages, turn, response, nonChatVars>>

\* update_brain_after_conversation on the loaded brain: the LLM answers or
\* fails; on an answer the row is updated, or the UPDATE finds no row (the
\* class and its brain were deleted) and the commit raises StaleDataError.
\* Every exception is caught inside (line 177), so the call returns.
update_scope_save(j) ==
    /\ jobs[j].pc = "running"
    /\ jobs[j].brain # NoBrain
    /\ LET job == jobs[j]
           class_id == JobScopes(job)[job.i]
           rows == {r \in brain_memories : r.id = job.brain.id}
       IN  \E outcome \in {"message", "APIStatusError500"} :
             LET result == IF outcome = "APIStatusError500" THEN "update_failed"
                           ELSE IF rows = {} THEN "StaleDataError"
                           ELSE "updated"
             IN  /\ brain_memories' =
                       IF result = "updated"
                       THEN (brain_memories \ rows)
                               \cup {update_brain_commit(r, job.brain, RevisedBrain,
                                                         job.conversation_id) : r \in rows}
                       ELSE brain_memories
                 /\ jobs' = [jobs EXCEPT
                       ![j].i = @ + 1,
                       ![j].brain = NoBrain,
                       ![j].db = IF result = "StaleDataError" THEN "failed" ELSE @,
                       ![j].log = Append(@, LogEntry(class_id, result)),
                       ![j].updated_brains = IF job.kind = "manual"
                                             THEN Append(@, class_id) ELSE @]
    /\ UNCHANGED <<tbl_classes, tbl_assignments, tbl_pdfs, tbl_notes, chat_conversations,
                   chat_messages, turn, response, next_id, nonChatVars>>

InitUpdate ==
    /\ InitTables
    /\ chat_conversations =
          {ChatConversation(TheConversation, "u1", <<"c1">>, <<>>, <<>>, <<>>)}
    /\ chat_messages = PriorMessages(brain_update_message_interval)
    /\ brain_memories = {NewBrain(1, "u1", NULL), NewBrain(2, "u1", "c1")}
    /\ next_id = 3
    /\ task = <<>>
    /\ turn = [t \in Turns |-> IdleTurn]
    /\ jobs = <<NewJob("background", 0, "u1", TheConversation, <<"c1">>)>>
    /\ response = [op |-> "none", status |-> 200]
    /\ RetryIdle
    /\ CtxIdle
    /\ PatIdle

NextUpdate ==
    \/ manually_update_brain_call
    \/ \E j \in 1..Len(jobs) : update_scope_get(j)
    \/ \E j \in 1..Len(jobs) : update_scope_save(j)
    \/ \E j \in 1..Len(jobs) : update_brains_background_end(j)
    \/ \E j \in 1..Len(jobs) : manually_update_brain_return(j)
    \/ delete_conversation
    \/ delete_class

SpecUpdate == InitUpdate /\ [][NextUpdate]_vars

\* ------------------------------------------------------------------ C26
\* The calls of update_brain_after_conversation on brain b that completed
\* successfully, over the first n tasks.
RECURSIVE Successes(_, _)
Successes(b, n) ==
    IF n = 0 THEN 0
    ELSE Successes(b, n - 1)
            + Cardinality({k \in 1..Len(jobs[n].log) :
                             /\ jobs[n].user_id = b.user_id
                             /\ jobs[n].log[k] = LogEntry(b.class_id, "updated")})

\* C26 as stated: the stored update_count of a brain is the number of calls
\* on it that completed successfully.
C26_CountEqualsSuccesses ==
    \A b \in brain_memories : b.update_count = Successes(b, Len(jobs))

\* The step is a successful update by task j.
SavesBrain(j) ==
    /\ Len(jobs'[j].log) = Len(jobs[j].log) + 1
    /\ jobs'[j].log[Len(jobs'[j].log)].result = "updated"

\* C26, amended: a successful call stores the update_count it loaded plus one.
\* The stored count is never more than the number of successful calls and at
\* least one once a call succeeded; a call that loaded the current row raises
\* the count by exactly one.
C26_CountFromLoadedBrain ==
    /\ [](\A b \in brain_memories :
            /\ b.update_count <= Successes(b, Len(jobs))
            /\ Successes(b, Len(jobs)) >= 1 => b.update_count >= 1)
    /\ [][\A j \in 1..Len(jobs) :
            SavesBrain(j) =>
               \E old \in brain_memories, new \in brain_memories' :
                  /\ old.id = jobs[j].brain.id
                  /\ new.id = old.id
                  /\ new.update_count = jobs[j].brain.update_count + 1
                  /\ new.content = RevisedBrain
                  /\ jobs[j].brain.update_count = old.update_count
                        => new.update_count = old.update_count + 1]_vars

\* Two calls on the global brain succeeded, each having loaded the brain
\* before the other committed: the count is one.
C26_Witness ==
    \E b \in brain_memories :
        /\ b.class_id = NULL
        /\ b.update_count = 1
        /\ Successes(b, Len(jobs)) = 2

\* ======================================================= the endpoints, by caller
\* SpecAccess: the chat and brain endpoints called by either user on either
\* user's conversation. Each call is one step; response holds the caller,
\* the status and the rows the handler read to build its answer (for a turn:
\* the rows whose text goes to the LLM as context and history).

\* The conversations, and the class id of GET /chat/brains/class/{id}: a class
\* of u2.
AccessConversationIds == {"conv1", "conv2"}
AccessClassIds == {"c9"}

\* Rows of chat_messages, and the update_count of a brain, the calls stop at.
MaxMessages == 4
MaxUpdateCount == 1

ReadRow(table, row) == [table |-> table, row |-> row]
ReadRows(table, rows) == {ReadRow(table, r) : r \in rows}

Result(op, user_id, conv_id, status, rows) ==
    [op |-> op, user_id |-> user_id, conversation_id |-> conv_id,
     status |-> status, rows |-> rows]

accessUnchanged == <<tbl_classes, tbl_assignments, tbl_pdfs, tbl_notes, turn, jobs,
                     nonChatVars>>

\* The rows build_context selects once the brains of the scope exist in bm:
\* the global brain; per class id the class row and the class brain; the
\* assignments, PDFs and notes of the id lists. Every select carries
\* user_id == user_id.
context_rows(bm, nid, user_id, conversation) ==
    LET class_ids == Range(conversation.context_class_ids)
    IN  ReadRows("brain_memories",
                 {GetOrCreate(bm, nid, user_id, s).brain : s \in {NULL} \cup class_ids})
        \cup ReadRows("classes",
                 {r \in tbl_classes : r.id \in class_ids /\ r.user_id = user_id})
        \cup ReadRows("assignments",
                 {r \in tbl_assignments :
                     r.id \in Range(conversation.context_assignment_ids)
                     /\ r.user_id = user_id})
        \cup ReadRows("pdfs",
                 {r \in tbl_pdfs : r.id \in Range(conversation.context_pdf_ids)
                                   /\ r.user_id = user_id})
        \cup ReadRows("notes",
                 {r \in tbl_notes : r.id \in Range(conversation.context_note_ids)
                                    /\ r.user_id = user_id})

\* GET /chat/conversations
list_conversations(user_id) ==
    /\ response' = Result("list_conversations", user_id, NULL, 200,
                      ReadRows("chat_conversations",
                               {c \in chat_conversations : c.user_id = user_id}))
    /\ UNCHANGED <<chat_conversations, chat_messages, brain_memories, next_id,
                   accessUnchanged>>

\* GET /chat/conversations/{conversation_id}
get_conversation(user_id, conv_id) ==
    /\ LET found == get_user_resource(chat_conversations, conv_id, user_id)
       IN  response' =
              IF found = {}
              THEN Result("get_conversation", user_id, conv_id, 404, {})
              ELSE Result("get_conversation", user_id, conv_id, 200,
                      ReadRows("chat_conversations", found)
                         \cup ReadRows("chat_messages", Range(MessagesOf(conv_id))))
    /\ UNCHANGED <<chat_conversations, chat_messages, brain_memories, next_id,
                   accessUnchanged>>

\* The class id lists of the PATCH bodies.
AccessRequests ==
    {Request(Some(<<"c1">>), None, None, None), Request(Some(<<"c9">>), None, None, None)}

\* PATCH /chat/conversations/{conversation_id}, from request to response.
update_conversation_context_by(user_id, conv_id, request) ==
    /\ LET found == get_user_resource(chat_conversations, conv_id, user_id)
           detail == validate_context_ids(user_id,
                         request.context_class_ids,
                         request.context_assignment_ids,
                         request.context_pdf_ids,
                         request.context_note_ids)
       IN  IF found = {}
           THEN /\ chat_conversations' = chat_conversations
                /\ response' = Result("update_conversation_context", user_id, conv_id,
                                      404, {})
           ELSE IF detail # ""
           THEN /\ chat_conversations' = chat_conversations
                /\ response' = Result("update_conversation_context", user_id, conv_id,
                                      400, {})
           ELSE /\ chat_conversations' =
                      {IF c \in found THEN with_context(c, request) ELSE c :
                          c \in chat_conversations}
                /\ response' = Result("update_conversation_context", user_id, conv_id,
                                      200, ReadRows("chat_conversations", found))
    /\ UNCHANGED <<chat_messages, brain_memories, next_id, accessUnchanged>>

\* DELETE /chat/conversations/{conversation_id}, for any caller and id.
delete_conversation_by(user_id, conv_id) ==
    /\ LET found == get_user_resource(chat_conversations, conv_id, user_id)
       IN  /\ chat_conversations' = chat_conversations \ found
           /\ chat_messages' = SelectSeq(chat_messages,
                  LAMBDA m : ~\E c \in found : m.conversation_id = c.id)
           /\ response' = Result("delete_conversation", user_id, conv_id,
                                 IF found = {} THEN 404 ELSE 204, {})
    /\ UNCHANGED <<brain_memories, next_id, accessUnchanged>>

\* POST /chat/conversations/{id}/messages/stream run to the end of its stream
\* with no other request in between: the conversation, build_context, the
\* history, the user message, and the assistant message event_generator
\* saves under the same conversation id.
stream_chat_message_by(user_id, conv_id) ==
    /\ Len(chat_messages) + 2 <= MaxMessages
    /\ LET found == get_user_resource(chat_conversations, conv_id, user_id)
           conversation == CHOOSE c \in found : TRUE
           loaded == LoadBrains(brain_memories, next_id, user_id,
                                <<NULL>> \o conversation.context_class_ids, 1)
       IN  IF found = {}
           THEN /\ response' = Result("stream_chat_message", user_id, conv_id, 404, {})
                /\ UNCHANGED <<chat_messages, brain_memories, next_id>>
           ELSE IF loaded.outcome # "returned"
           THEN /\ response' = Result("stream_chat_message", user_id, conv_id, 500, {})
                /\ brain_memories' = loaded.bm
                /\ next_id' = loaded.nid
                /\ chat_messages' = chat_messages
           ELSE /\ response' = Result("stream_chat_message", user_id, conv_id, 200,
                      context_rows(loaded.bm, loaded.nid, user_id, conversation)
                         \cup ReadRows("chat_messages", Range(MessagesOf(conv_id))))
                /\ brain_memories' = loaded.bm
                /\ next_id' = loaded.nid + 2
                /\ chat_messages' = chat_messages \o
                      <<ChatMessage(loaded.nid, conv_id, "user", "what is a limit?"),
                        ChatMessage(loaded.nid + 1, conv_id, "assistant", ChunkText(1))>>
    /\ UNCHANGED <<chat_conversations, accessUnchanged>>

\* The loop of manually_update_brain from scope i on, the LLM answering each
\* call: get_or_create_brain, then the save of update_brain_after_conversation.
RECURSIVE UpdateBrains(_, _, _, _, _, _)
UpdateBrains(bm, nid, user_id, scopes, i, conv_id) ==
    IF i > Len(scopes)
    THEN BrainResult("returned", NoBrain, bm, nid)
    ELSE LET g == GetOrCreate(bm, nid, user_id, scopes[i])
         IN  IF g.outcome # "returned" THEN g
             ELSE UpdateBrains(
                     (g.bm \ {g.brain})
                         \cup {update_brain_save_row(g.brain, RevisedBrain, conv_id)},
                     g.nid, user_id, scopes, i + 1, conv_id)

\* POST /chat/conversations/{id}/update-brain, from request to response.
manually_update_brain_by(user_id, conv_id) ==
    /\ \A b \in brain_memories : b.user_id = user_id => b.update_count < MaxUpdateCount
    /\ LET found == get_user_resource(chat_conversations, conv_id, user_id)
           conversation == CHOOSE c \in found : TRUE
           updated == UpdateBrains(brain_memories, next_id, user_id,
                                   conversation.context_class_ids \o <<NULL>>, 1,
                                   conversation.id)
       IN  IF found = {}
           THEN /\ response' = Result("manually_update_brain", user_id, conv_id, 404, {})
                /\ UNCHANGED <<brain_memories, next_id>>
           ELSE /\ response' = Result("manually_update_brain", user_id, conv_id,
                      IF updated.outcome = "returned" THEN 200 ELSE 500,
                      ReadRows("chat_messages", Range(MessagesOf(conv_id))))
                /\ brain_memories' = updated.bm
                /\ next_id' = updated.nid
    /\ UNCHANGED <<chat_conversations, chat_messages, accessUnchanged>>

\* GET /chat/brains/global (class_id = NULL) and GET /chat/brains/class/{id}:
\* get_or_create_brain(db, user.id, class_id) with the id of the path.
get_brain(user_id, class_id) ==
    /\ LET g == GetOrCreate(brain_memories, next_id, user_id, class_id)
           op == IF class_id = NULL THEN "get_global_brain" ELSE "get_class_brain"
       IN  /\ brain_memories' = g.bm
           /\ next_id' = g.nid
           /\ response' = IF g.outcome = "returned"
                          THEN Result(op, user_id, NULL, 200,
                                      ReadRows("brain_memories", {g.brain}))
                          ELSE Result(op, user_id, NULL, 500, {})
    /\ UNCHANGED <<chat_conversations, chat_messages, accessUnchanged>>

get_global_brain(user_id) == get_brain(user_id, NULL)

get_class_brain(user_id, class_id) == get_brain(user_id, class_id)

\* GET /chat/brains
list_brains(user_id) ==
    /\ response' = Result("list_brains", user_id, NULL, 200,
                      ReadRows("brain_memories",
                               {b \in brain_memories : b.user_id = user_id}))
    /\ UNCHANGED <<chat_conversations, chat_messages, brain_memories, next_id,
                   accessUnchanged>>

\* Each user has a conversation over rows of their own, holding the user
\* message of a turn that was cut off.
InitAccess ==
    /\ InitTables
    /\ chat_conversations =
          {ChatConversation("conv1", "u1", <<"c1">>, <<"a1">>, <<"p1">>, <<"n1">>),
           ChatConversation("conv2", "u2", <<>>, <<"a9">>, <<"p9">>, <<"n9">>)}
    /\ chat_messages =
          <<ChatMessage(3, "conv1", "user", "what is a limit?"),
            ChatMessage(6, "conv2", "user", "what is a limit?")>>
    /\ brain_memories = {NewBrain(1, "u1", NULL), NewBrain(2, "u1", "c1"),
                         NewBrain(5, "u2", NULL)}
    /\ next_id = 8
    /\ task = <<>>
    /\ turn = <<>>
    /\ jobs = <<>>
    /\ response = [op |-> "none", status |-> 200]
    /\ RetryIdle
    /\ CtxIdle
    /\ PatIdle

NextAccess ==
    \E user_id \in Users :
        \/ list_conversations(user_id)
        \/ get_global_brain(user_id)
        \/ list_brains(user_id)
        \/ \E class_id \in AccessClassIds : get_class_brain(user_id, class_id)
        \/ \E conv_id \in AccessConversationIds :
              \/ get_conversation(user_id, conv_id)
              \/ delete_conversation_by(user_id, conv_id)
              \/ stream_chat_message_by(user_id, conv_id)
              \/ manually_update_brain_by(user_id, conv_id)
              \/ \E request \in AccessRequests :
                    update_conversation_context_by(user_id, conv_id, request)

SpecAccess == InitAccess /\ [][NextAccess]_vars

\* ------------------------------------------------------------------ C21
\* The owner of a row a handler read: of a message, the owner of its
\* conversation; of any other row, its user_id.
OwnerOf(entry) ==
    IF entry.table = "chat_messages"
    THEN LET c == CHOOSE c \in chat_conversations : c.id = entry.row.conversation_id
         IN  c.user_id
    ELSE entry.row.user_id

\* C21: a call of a chat or brain endpoint reads and returns only rows of the
\* caller (the context and the history of a turn included) and leaves every
\* conversation, message and brain of another user as it was.
C21_NoCrossUserAccess ==
    [][LET caller == response'.user_id
       IN  /\ \A entry \in response'.rows : OwnerOf(entry) = caller
           /\ \A c \in chat_conversations :
                 c.user_id # caller =>
                    /\ c \in chat_conversations'
                    /\ MessagesOf(c.id)' = MessagesOf(c.id)
           /\ \A b \in brain_memories :
                 b.user_id # caller => b \in brain_memories']_vars

\* A user asked for a turn on the conversation of the other user and got 404.
C21_Witness ==
    /\ response.op = "stream_chat_message"
    /\ response.status = 404
    /\ \E c \in chat_conversations :
          c.id = response.conversation_id /\ c.user_id # response.user_id

\* ------------------------------------------------------------------ C28
\* C28: every class brain belongs to the owner of its class.
C28_ClassBrainOfOwnClass ==
    \A b \in brain_memories :
        b.class_id # NULL =>
           \E c \in tbl_classes : c.id = b.class_id /\ c.user_id = b.user_id

====
